---------------------------- MODULE Spec2Model ----------------------------
(***************************************************************************)
(* Model of the NM Aquifer -> Ocotillo migration-tracking scripts.         *)
(*                                                                         *)
(* A Python string is a sequence of one-character strings; the three       *)
(* missing values (None, float nan, pandas NA) are marker values that are  *)
(* no string.  Every script is a straight-line batch job: its position is  *)
(* a pc variable, its inputs are chosen by Init, its steps are actions.    *)
(***************************************************************************)
EXTENDS Naturals, Sequences, FiniteSets, TLC

VARIABLES
    \* make_key applied to one value, then to its own result
    mk_pc, mk_x, mk_key, mk_key2,
    \* the world of a script run: the spreadsheet's tabs, the output
    \* actions done so far, and the message of sys.exit or of the traceback
    tabs, out_log, exit_msg,
    \* nmaquifer_sheets_pipeline.py main: its position, the schema-inventory
    \* CSV and its locals
    p_pc, csv_file, sheets_dict, matched_rows, unmatched_rows, stats,
    matrix_cols,
    \* transfer_to_amp_review.py main: its position, the transfer-metrics
    \* file, its locals, and the number of the run
    a_pc, metrics_file, unique_new, existing_set, current_height, a_runs,
    \* build_field_pairs_flat.py and build_field_pairs_sheet.py main: the
    \* position, the two report CSVs, the frames read from them, and the
    \* locals of the one and of the other
    fp_pc, mapped_csv, unmapped_csv, df_m, df_u, pairs_sorted, df_flat,
    table_fields, wide_values,
    \* clean_error applied to one message: its position, the message and
    \* the result [raises, out]
    ce_pc, ce_msg, ce_out,
    \* one line of the transfer log read by each of its consumers: the
    \* position, the line, and the rows the consumers get from it
    ln_pc, ln_raw, ln_metrics, ln_counts, ln_blocks, ln_amp,
    \* find_datasource_tables.py main: its position, the input CSV, the
    \* database (whether it can be reached and the objects its catalog
    \* lists), the locals values, obj_checks, pairs and the two loop indexes,
    \* the statements the cursor has executed with their outcomes, the lines
    \* printed, and the output CSV
    d_pc, in_csv, database, d_values, obj_checks, d_v, d_o, d_pairs, executed,
    printed, out_csv,
    \* write_df_to_sheet applied twice with the same frame: the position, the
    \* values of the frame, and the tabs after the first application
    sy_pc, sy_values, sy_first,
    \* transfermetrics.py main: its position, the transfer log, the frame read
    \* from it and the wide layout
    tm_pc, tm_file, tm_df, tm_wide,
    \* transfermetrics_3.py main: its position, the transfer log and the
    \* summary rows parsed from it
    b_pc, b_file, b_rows,
    \* update_amp_review_data.py main: its position, the number of the run, the
    \* values fetched from the two sheets and the updates prepared
    u_pc, u_runs, source_values, target_values, data_updates,
    \* combine_invalid_welldata.py: the position of the run and the number
    \* of the run, the files of the current directory, the sorted input
    \* files, the file being read and the next line to read of it, whether
    \* the writer exists, the lines written to the output so far and how
    \* many of them have left the buffer, the count of data rows, the
    \* files opened for reading, the combined file the first run left
    c_pc, c_runs, folder, c_files, c_i, c_line, writer, out_f, flushed, total_rows, opened, c_first

keyVars == <<mk_pc, mk_x, mk_key, mk_key2>>

ampVars ==
    <<a_pc, metrics_file, unique_new, existing_set, current_height, a_runs>>

fpVars ==
    <<fp_pc, mapped_csv, unmapped_csv, df_m, df_u, pairs_sorted, df_flat,
      table_fields, wide_values>>

worldVars == <<tabs, out_log, exit_msg>>

pipeVars ==
    <<p_pc, csv_file, sheets_dict, matched_rows, unmatched_rows, stats,
      matrix_cols>>

cleanVars == <<ce_pc, ce_msg, ce_out>>

lineVars == <<ln_pc, ln_raw, ln_metrics, ln_counts, ln_blocks, ln_amp>>

discVars ==
    <<d_pc, in_csv, database, d_values, obj_checks, d_v, d_o, d_pairs,
      executed, printed, out_csv>>

syncVars == <<sy_pc, sy_values, sy_first>>

metricsVars == <<tm_pc, tm_file, tm_df, tm_wide>>

blocksVars == <<b_pc, b_file, b_rows>>

updateVars == <<u_pc, u_runs, source_values, target_values, data_updates>>

combineVars ==
    <<c_pc,
      c_runs,
      folder,
      c_files,
      c_i,
      c_line,
      writer,
      out_f,
      flushed,
      total_rows,
      opened,
      c_first>>

vars ==
    <<keyVars, worldVars, pipeVars, ampVars, fpVars, cleanVars, lineVars,
      discVars,
      syncVars,
      metricsVars,
      blocksVars,
      updateVars,
      combineVars>>

\* What a script leaves alone: the variables of the other scripts.
notKeyVars == <<pipeVars, ampVars, fpVars, cleanVars, lineVars, discVars,
      syncVars,
      metricsVars,
      blocksVars,
      updateVars,
      combineVars>>
notPipeVars == <<keyVars, ampVars, fpVars, cleanVars, lineVars, discVars,
      syncVars,
      metricsVars,
      blocksVars,
      updateVars,
      combineVars>>
notAmpVars == <<keyVars, pipeVars, fpVars, cleanVars, lineVars, discVars,
      syncVars,
      metricsVars,
      blocksVars,
      updateVars,
      combineVars>>
notFpVars == <<keyVars, pipeVars, ampVars, cleanVars, lineVars, discVars,
      syncVars,
      metricsVars,
      blocksVars,
      updateVars,
      combineVars>>
notCleanVars == <<keyVars, pipeVars, ampVars, fpVars, lineVars, discVars,
      syncVars,
      metricsVars,
      blocksVars,
      updateVars,
      combineVars>>
notLineVars == <<keyVars, pipeVars, ampVars, fpVars, cleanVars, discVars,
      syncVars,
      metricsVars,
      blocksVars,
      updateVars,
      combineVars>>
notDiscVars == <<keyVars, pipeVars, ampVars, fpVars, cleanVars, lineVars,
      syncVars,
      metricsVars,
      blocksVars,
      updateVars,
      combineVars>>
notSyncVars ==
    <<keyVars, pipeVars, ampVars, fpVars, cleanVars, lineVars,
      discVars,
      metricsVars,
      blocksVars,
      updateVars,
      combineVars>>
notMetricsVars ==
    <<keyVars, pipeVars, ampVars, fpVars, cleanVars, lineVars,
      discVars, syncVars,
      blocksVars,
      updateVars,
      combineVars>>
notBlocksVars ==
    <<keyVars, pipeVars, ampVars, fpVars, cleanVars, lineVars,
      discVars, syncVars, metricsVars,
      updateVars,
      combineVars>>
notUpdateVars ==
    <<keyVars, pipeVars, ampVars, fpVars, cleanVars, lineVars,
      discVars, syncVars, metricsVars, blocksVars,
      combineVars>>
notCombineVars ==
    <<keyVars, pipeVars, ampVars, fpVars, cleanVars, lineVars,
      discVars, syncVars, metricsVars, blocksVars, updateVars>>

-----------------------------------------------------------------------------
(* Python values                                                           *)

None == <<"<None>">>
NaN  == <<"<nan>">>
NA   == <<"<NA>">>

\* pd.isna(x)
isna(x) == x \in {None, NaN, NA}

\* str(x)
str(x) ==
    IF x = None THEN <<"N", "o", "n", "e">>
    ELSE IF x = NaN THEN <<"n", "a", "n">>
    ELSE IF x = NA THEN <<"<", "N", "A", ">">>
    ELSE x

UpperAscii ==
    <<"A", "B", "C", "D", "E", "F", "G", "H", "I", "J", "K", "L", "M",
      "N", "O", "P", "Q", "R", "S", "T", "U", "V", "W", "X", "Y", "Z">>

LowerAscii ==
    <<"a", "b", "c", "d", "e", "f", "g", "h", "i", "j", "k", "l", "m",
      "n", "o", "p", "q", "r", "s", "t", "u", "v", "w", "x", "y", "z">>

Digits == {"0", "1", "2", "3", "4", "5", "6", "7", "8", "9"}

\* The characters the pattern [0-9a-z] accepts.
KeyChars == Digits \cup {LowerAscii[i] : i \in 1..26}

\* str.lower() of one character.  "U+212A" is the Kelvin sign, whose lower
\* case is the ASCII letter k; "U+00C9" is E with acute, whose lower case
\* "U+00E9" is no ASCII letter.
lower_char(c) ==
    IF \E i \in 1..26 : UpperAscii[i] = c
    THEN <<LowerAscii[CHOOSE i \in 1..26 : UpperAscii[i] = c]>>
    ELSE IF c = "U+212A" THEN <<"k">>
    ELSE IF c = "U+00C9" THEN <<"U+00E9">>
    ELSE <<c>>

RECURSIVE lower(_)
\* str.lower()
lower(s) == IF s = <<>> THEN <<>> ELSE lower_char(Head(s)) \o lower(Tail(s))

\* Length of the maximal run of characters outside [0-9a-z] that starts s.
RECURSIVE RunLen(_)
RunLen(s) ==
    IF s = <<>> \/ Head(s) \in KeyChars THEN 0 ELSE 1 + RunLen(Tail(s))

\* re.sub(r"[^0-9a-z]+", "", s): scanning from the left, every maximal run
\* of characters outside [0-9a-z] is replaced by the empty string.
RECURSIVE re_sub_nonkey(_)
re_sub_nonkey(s) ==
    IF s = <<>> THEN <<>>
    ELSE IF RunLen(s) > 0 THEN re_sub_nonkey(SubSeq(s, RunLen(s) + 1, Len(s)))
    ELSE <<Head(s)>> \o re_sub_nonkey(Tail(s))

\* A make_key that forgets to lowercase before it filters.
make_key_nolower(x) ==
    IF x = None THEN <<>>
    ELSE IF x = NaN THEN <<>>
    ELSE re_sub_nonkey(str(x))

\* A make_key without the None / nan guards.
make_key_noguard(x) == re_sub_nonkey(lower(str(x)))

\* make_key(x)
make_key(x) ==
    IF x = None THEN <<>>
    ELSE IF x = NaN THEN <<>>
    ELSE re_sub_nonkey(lower(str(x)))

-----------------------------------------------------------------------------
(* String helpers                                                          *)

\* F(x), with x evaluated once however often F uses its parameter.
Bind(F(_), x) == CHOOSE y \in {F(v) : v \in {x}} : TRUE

\* The characters str.strip() removes: space, tab, newline.
Whitespace == {" ", "\t", "\n"}

RECURSIVE lstrip(_, _)
lstrip(s, chars) ==
    IF s # <<>> /\ Head(s) \in chars THEN lstrip(Tail(s), chars) ELSE s

RECURSIVE rstrip(_, _)
rstrip(s, chars) ==
    IF s # <<>> /\ s[Len(s)] \in chars
    THEN rstrip(SubSeq(s, 1, Len(s) - 1), chars)
    ELSE s

\* s.strip(chars)
strip_chars(s, chars) == rstrip(lstrip(s, chars), chars)

\* s.strip()
strip(s) == strip_chars(s, Whitespace)

\* s.startswith(prefix)
startswith(s, prefix) ==
    Len(s) >= Len(prefix) /\ SubSeq(s, 1, Len(prefix)) = prefix

\* s.split(sep) for a one-character separator: always at least one part.
RECURSIVE split(_, _)
split_text(s, sep) ==
    IF \A i \in 1..Len(s) : s[i] # sep THEN <<s>>
    ELSE LET i == CHOOSE k \in 1..Len(s) :
                      s[k] = sep /\ \A j \in 1..(k - 1) : s[j] # sep
         IN  <<SubSeq(s, 1, i - 1)>> \o split(SubSeq(s, i + 1, Len(s)), sep)

split(s, sep) == Bind(LAMBDA text : split_text(text, sep), s)

\* Python's order on strings needs an order on characters; the model orders
\* the characters it uses by code point.
CodePoints ==
    <<"\t", "\n", " ", "\"", "'", "(", ")", ",", "-", ".", "/",
      "0", "1", "2", "3", "4", "5", "6", "7", "8", "9", "<", ">",
      "A", "B", "C", "D", "E", "F", "G", "H", "I", "J", "K", "L", "M",
      "N", "O", "P", "Q", "R", "S", "T", "U", "V", "W", "X", "Y", "Z",
      "[", "]", "_",
      "a", "b", "c", "d", "e", "f", "g", "h", "i", "j", "k", "l", "m",
      "n", "o", "p", "q", "r", "s", "t", "u", "v", "w", "x", "y", "z",
      "|", "U+00C9", "U+00E9", "U+212A">>

ord(c) == CHOOSE i \in 1..Len(CodePoints) : CodePoints[i] = c

\* a < b for Python strings
RECURSIVE str_lt(_, _)
str_lt(a, b) ==
    IF b = <<>> THEN FALSE
    ELSE IF a = <<>> THEN TRUE
    ELSE IF Head(a) = Head(b) THEN str_lt(Tail(a), Tail(b))
    ELSE ord(Head(a)) < ord(Head(b))

\* normalize_name(x)
normalize_name(x) == IF isna(x) THEN <<>> ELSE strip(str(x))

RECURSIVE MapSeq(_, _)
MapSeq(Op(_), s) ==
    IF s = <<>> THEN <<>> ELSE <<Op(Head(s))>> \o MapSeq(Op, Tail(s))

\* One part of the columns cell: p.strip().strip('"').strip("'")
clean_part(p) == strip_chars(strip_chars(strip(p), {"\""}), {"'"})

NonEmpty(s) == s # <<>>

\* split_columns_cell(cell)
split_columns_cell(cell) ==
    IF isna(cell) THEN <<>>
    ELSE LET raw == strip_chars(strip(str(cell)), {"[", "]"})
         IN  SelectSeq(MapSeq(clean_part, split(raw, ",")), NonEmpty)

\* strip_prefix_case_insensitive(name, prefix)
strip_prefix_case_insensitive(name, prefix) ==
    IF startswith(lower(name), lower(prefix))
    THEN SubSeq(name, Len(prefix) + 1, Len(name))
    ELSE name

-----------------------------------------------------------------------------
(* DataFrames                                                              *)

Range(s) == {s[i] : i \in DOMAIN s}

ColIndex(headers, c) == CHOOSE i \in DOMAIN headers : headers[i] = c

MaxRowLen(rows) ==
    IF rows = <<>> THEN 0
    ELSE CHOOSE n \in {Len(rows[i]) : i \in DOMAIN rows} :
             \A i \in DOMAIN rows : Len(rows[i]) <= n

\* pd.DataFrame(rows, columns=headers) raises ValueError when the longest
\* row does not have exactly len(headers) cells.
DataFrame_raises(rows, headers) ==
    rows # <<>> /\ MaxRowLen(rows) # Len(headers)

\* pd.DataFrame(rows, columns=headers): a shorter row is padded with None.
DataFrame(rows, headers) ==
    [columns |-> headers,
     rows |-> [i \in DOMAIN rows |->
                 [c \in Range(headers) |->
                    IF ColIndex(headers, c) <= Len(rows[i])
                    THEN rows[i][ColIndex(headers, c)]
                    ELSE None]]]

\* df[col] = <a value computed from each row>
WithColumn(df, col, Val(_)) ==
    [columns |-> IF col \in Range(df.columns) THEN df.columns
                 ELSE Append(df.columns, col),
     rows |-> [i \in DOMAIN df.rows |-> (col :> Val(df.rows[i])) @@ df.rows[i]]]

-----------------------------------------------------------------------------
(* nmaquifer_sheets_pipeline.py: configuration                             *)

SHEET_PREFIX == <<"N", "M", "A", "q", "u", "i", "f", "e", "r", "_">>
MATCHED_SHEET_NAME == <<"M", "a", "t", "c", "h", "e", "d">>
UNMATCHED_SHEET_NAME == <<"U", "n", "m", "a", "t", "c", "h", "e", "d">>
MATRIX_SHEET_NAME == <<"M", "a", "t", "r", "i", "x">>

\* Column names of a mapping tab (REQ_SHEET_COLS and lines 233-244).
COL_NMAQ ==
    <<"N", "M", "A", "q", "u", "i", "f", "e", "r", " ", "F", "i", "e", "l", "d", " ", "N", "a", "m", "e">>
COL_OTAB ==
    <<"O", "c", "o", "t", "i", "l", "l", "o", " ", "T", "a", "b", "l", "e", " ", "N", "a", "m", "e">>
COL_OFIELD ==
    <<"O", "c", "o", "t", "i", "l", "l", "o", " ", "F", "i", "e", "l", "d", " ", "N", "a", "m", "e">>
COL_EXISTS ==
    <<"D", "o", "e", "s", " ", "f", "i", "e", "l", "d", " ", "e", "x", "i", "s", "t", " ", "i", "n", " ", "O", "c", "o", "t", "i", "l", "l", "o", "?">>
COL_EXISTS_MODEL ==
    <<"D", "o", "e", "s", " ", "f", "i", "e", "l", "d", " ", "e", "x", "i", "s", "t", " ", "i", "n", " ", "t", "h", "e", " ", "m", "o", "d", "e", "l", "?">>
COL_NOTE ==
    <<"N", "o", "t", "e">>
COL_KEY ==
    <<"_", "_", "k", "e", "y", "_", "_">>

REQ_SHEET_COLS == <<COL_NMAQ, COL_OTAB, COL_OFIELD>>

-----------------------------------------------------------------------------
(* read_mapping_sheets_to_dfs                                              *)

\* The DataFrame of one mapping tab, before the required columns are added.
sheet_frame(values) ==
    IF values = <<>> THEN [columns |-> <<>>, rows |-> <<>>]
    ELSE DataFrame(Tail(values), Head(values))

sheet_frame_raises(values) ==
    values # <<>> /\ DataFrame_raises(Tail(values), Head(values))

NAValue(row) == NA
NoneValue(row) == None

EnsureColumn(df, col) ==
    IF col \in Range(df.columns) THEN df ELSE WithColumn(df, col, NAValue)

RECURSIVE EnsureColumns(_, _)
EnsureColumns(df, cols) ==
    IF cols = <<>> THEN df
    ELSE EnsureColumns(EnsureColumn(df, Head(cols)), Tail(cols))

ModelColumn(row) == row[COL_EXISTS_MODEL]

\* The status column under either of its two names.
ensure_status_column(df) ==
    IF COL_EXISTS \in Range(df.columns) THEN df
    ELSE IF COL_EXISTS_MODEL \in Range(df.columns)
    THEN WithColumn(df, COL_EXISTS, ModelColumn)
    ELSE WithColumn(df, COL_EXISTS, NAValue)

KeyOfRow(row) == make_key(row[COL_NMAQ])

\* Lines 229-247: the frame with its required columns and its __key__.
prepare_sheet(df) ==
    WithColumn(
        ensure_status_column(
            EnsureColumn(EnsureColumns(df, REQ_SHEET_COLS), COL_NOTE)),
        COL_KEY, KeyOfRow)

IsMappingTitle(title) == startswith(lower(title), lower(SHEET_PREFIX))

\* The loop of read_mapping_sheets_to_dfs over the tabs in the order the
\* API lists them: a later tab with the same table name replaces the
\* earlier one.  raised: pd.DataFrame raised ValueError on some tab.
RECURSIVE read_mapping_sheets_to_dfs(_, _)
read_mapping_sheets_to_dfs(sheets, acc) ==
    IF sheets = <<>> THEN [raised |-> FALSE, sheets_dict |-> acc]
    ELSE LET tab == Head(sheets)
             old_table ==
                 strip_prefix_case_insensitive(tab.title, SHEET_PREFIX)
         IN  IF ~IsMappingTitle(tab.title)
             THEN read_mapping_sheets_to_dfs(Tail(sheets), acc)
             ELSE IF sheet_frame_raises(tab.values)
             THEN [raised |-> TRUE, sheets_dict |-> acc]
             ELSE read_mapping_sheets_to_dfs(
                      Tail(sheets),
                      (normalize_name(old_table) :>
                           prepare_sheet(sheet_frame(tab.values))) @@ acc)

-----------------------------------------------------------------------------
(* The matcher: main, lines 469-540                                        *)

NoSheetReason ==
    <<"N", "o", " ", "c", "o", "r", "r", "e", "s", "p", "o", "n", "d", "i", "n", "g", " ", "s", "h", "e", "e", "t", " ", "(", "e", "x", "p", "e", "c", "t", "e", "d", " ", "'", "N", "M", "A", "q", "u", "i", "f", "e", "r", "_", "{", "o", "l", "d", " ", "t", "a", "b", "l", "e", " ", "n", "a", "m", "e", "}", "'", ")">>
NoMatchReason ==
    <<"N", "o", " ", "m", "a", "t", "c", "h", "i", "n", "g", " ", "'", "N", "M", "A", "q", "u", "i", "f", "e", "r", " ", "F", "i", "e", "l", "d", " ", "N", "a", "m", "e", "'", " ", "(", "a", "f", "t", "e", "r", " ", "n", "o", "r", "m", "a", "l", "i", "z", "a", "t", "i", "o", "n", ")">>

\* A lookup in which the first row of a key is kept.
RECURSIVE build_lookup_first(_, _)
build_lookup_first(rows, acc) ==
    IF rows = <<>> THEN acc
    ELSE build_lookup_first(Tail(rows),
                            acc @@ (Head(rows)[COL_KEY] :> Head(rows)))

\* lookup = {k: rec for k, rec in zip(keys, records)}: a later row with the
\* same key replaces the earlier one.
RECURSIVE build_lookup(_, _)
build_lookup(rows, acc) ==
    IF rows = <<>> THEN acc
    ELSE build_lookup(Tail(rows),
                      (Head(rows)[COL_KEY] :> Head(rows)) @@ acc)

EmptyDict == [k \in {} |-> <<>>]

\* Lines 517-531: the row appended to matched_rows.
matched_row(old_table, old_col, rec) ==
    [old_table |-> old_table,
     old_col |-> old_col,
     nmaq |-> normalize_name(rec[COL_NMAQ]),
     o_tab |-> normalize_name(rec[COL_OTAB]),
     o_col |-> normalize_name(rec[COL_OFIELD]),
     field_exists |-> normalize_name(rec[COL_EXISTS]),
     note |-> normalize_name(rec[COL_NOTE])]

unmatched_row(old_table, old_col, reason) ==
    [old_table |-> old_table, old_col |-> old_col, reason |-> reason]

\* A probe with the column name as it stands.
probe_key_raw(old_col) == old_col

\* Line 506: key = make_key(old_col)
probe_key(old_col) == make_key(old_col)

\* Lines 505-532: the loop over the old columns of a table with a sheet.
RECURSIVE match_columns(_, _, _, _)
match_columns(old_table, old_cols, lookup, acc) ==
    IF old_cols = <<>> THEN acc
    ELSE LET old_col == Head(old_cols)
             key == probe_key(old_col)
         IN  match_columns(
                 old_table, Tail(old_cols), lookup,
                 IF key \notin DOMAIN lookup
                 THEN [acc EXCEPT !.unmatched_rows =
                          Append(@, unmatched_row(old_table, old_col,
                                                  NoMatchReason)),
                                  !.unmatched_count = @ + 1]
                 ELSE [acc EXCEPT !.matched_rows =
                          Append(@, matched_row(old_table, old_col,
                                                lookup[key])),
                                  !.matched_count = @ + 1])

\* Lines 483-489: every column of a table without a sheet is unmatched.
RECURSIVE unmatched_columns(_, _, _)
unmatched_columns(old_table, old_cols, acc) ==
    IF old_cols = <<>> THEN acc
    ELSE unmatched_columns(
             old_table, Tail(old_cols),
             [acc EXCEPT !.unmatched_rows =
                 Append(@, unmatched_row(old_table, Head(old_cols),
                                         NoSheetReason)),
                         !.unmatched_count = @ + 1])

\* One pass of the loop of line 474 over a row of the schema inventory.
match_table(row, sheets, acc) ==
    LET old_table == normalize_name(row.table_name)
        old_cols == split_columns_cell(row.columns)
        has_sheet == old_table \in DOMAIN sheets
        sheet_rows == IF has_sheet THEN Len(sheets[old_table].rows) ELSE 0
        start == [matched_rows |-> acc.matched_rows,
                  unmatched_rows |-> acc.unmatched_rows,
                  matched_count |-> 0,
                  unmatched_count |-> 0]
        done == IF has_sheet
                THEN match_columns(
                         old_table, old_cols,
                         build_lookup(sheets[old_table].rows, EmptyDict),
                         start)
                ELSE unmatched_columns(old_table, old_cols, start)
    IN  [matched_rows |-> done.matched_rows,
         unmatched_rows |-> done.unmatched_rows,
         stats |-> (old_table :>
                       [csv_cols |-> Len(old_cols),
                        sheet_rows |-> sheet_rows,
                        matched |-> done.matched_count,
                        unmatched |-> done.unmatched_count,
                        has_sheet |-> has_sheet]) @@ acc.stats]

RECURSIVE match_all(_, _, _)
match_all(rows, sheets, acc) ==
    IF rows = <<>> THEN acc
    ELSE match_all(Tail(rows), sheets, match_table(Head(rows), sheets, acc))

-----------------------------------------------------------------------------
(* The spreadsheet: tabs in the order the API lists them.  A tab is        *)
(* [title, values, rules]: values is what values().get returns (rows of    *)
(* cells, trailing empty cells and rows left out), rules the tab's         *)
(* conditional-format rules.                                               *)

Max(a, b) == IF a >= b THEN a ELSE b

EmptyCell == <<>>

RECURSIVE trim_row(_)
trim_row(row) ==
    IF row # <<>> /\ row[Len(row)] = EmptyCell
    THEN trim_row(SubSeq(row, 1, Len(row) - 1))
    ELSE row

RECURSIVE trim_rows(_)
trim_rows(g) ==
    IF g # <<>> /\ g[Len(g)] = <<>>
    THEN trim_rows(SubSeq(g, 1, Len(g) - 1))
    ELSE g

trim_grid(g) == trim_rows([i \in DOMAIN g |-> trim_row(g[i])])

Cell(g, i, j) ==
    IF i \in DOMAIN g /\ j \in DOMAIN g[i] THEN g[i][j] ELSE EmptyCell

\* The last column of the range A:Z.
A_Z_COLUMNS == 26

\* values().clear on the columns 1..ncols of a tab.
clear_values(g, ncols) ==
    trim_grid([i \in DOMAIN g |->
                 [j \in DOMAIN g[i] |->
                    IF j <= ncols THEN EmptyCell ELSE g[i][j]]])

\* values().update of the block `new` with its top-left cell at (row0, A).
update_values(g, row0, new) ==
    LET height == Max(Len(g), row0 - 1 + Len(new))
        InNew(i, j) ==
            /\ i - row0 + 1 \in DOMAIN new
            /\ j \in DOMAIN new[i - row0 + 1]
        width(i) ==
            Max(IF i \in DOMAIN g THEN Len(g[i]) ELSE 0,
                IF i - row0 + 1 \in DOMAIN new
                THEN Len(new[i - row0 + 1]) ELSE 0)
    IN  trim_grid([i \in 1..height |->
                     [j \in 1..width(i) |->
                        IF InNew(i, j) THEN new[i - row0 + 1][j]
                        ELSE Cell(g, i, j)]])

HasTab(sheets, title) == \E i \in DOMAIN sheets : sheets[i].title = title

TabIndex(sheets, title) == CHOOSE i \in DOMAIN sheets : sheets[i].title = title

NewTab(title) == [title |-> title, values |-> <<>>, rules |-> <<>>]

OutputAction(op, target) == [op |-> op, target |-> target]

\* An ensure_sheet that adds the tab without looking for the title.
ensure_sheet_add(book, title) ==
    [tabs |-> Append(book.tabs, NewTab(title)),
     out_log |-> Append(book.out_log, OutputAction("addSheet", title))]

\* ensure_sheet(service, title): addSheet only when no tab has the title.
ensure_sheet(book, title) ==
    IF HasTab(book.tabs, title) THEN book
    ELSE [tabs |-> Append(book.tabs, NewTab(title)),
          out_log |-> Append(book.out_log, OutputAction("addSheet", title))]

clear_sheet(book, title) ==
    [tabs |-> [book.tabs EXCEPT ![TabIndex(book.tabs, title)].values =
                  clear_values(@, A_Z_COLUMNS)],
     out_log |-> Append(book.out_log, OutputAction("clear", title))]

update_sheet(book, title, row0, new) ==
    [tabs |-> [book.tabs EXCEPT ![TabIndex(book.tabs, title)].values =
                  update_values(@, row0, new)],
     out_log |-> Append(book.out_log, OutputAction("update", title))]

to_file(book, name) ==
    [tabs |-> book.tabs,
     out_log |-> Append(book.out_log, OutputAction("file", name))]

\* write_df_to_sheet(service, df, sheet_title), with df_to_values(df) given.
write_df_to_sheet(book, values, title) ==
    LET cleared == clear_sheet(ensure_sheet(book, title), title)
    IN  IF values = <<>> THEN cleared
        ELSE update_sheet(cleared, title, 1, values)

-----------------------------------------------------------------------------
(* Report frames                                                           *)

OLD_TABLE_NAME ==
    <<"O", "l", "d", " ", "T", "a", "b", "l", "e", " ", "N", "a", "m", "e">>
OLD_COLUMN_NAME ==
    <<"O", "l", "d", " ", "C", "o", "l", "u", "m", "n", " ", "N", "a", "m", "e">>
REASON ==
    <<"R", "e", "a", "s", "o", "n">>

MatchedColumns ==
    <<OLD_TABLE_NAME, OLD_COLUMN_NAME, COL_NMAQ, COL_OTAB, COL_OFIELD,
      COL_EXISTS, COL_NOTE>>

UnmatchedColumns == <<OLD_TABLE_NAME, OLD_COLUMN_NAME, REASON>>

matched_values(r) ==
    <<r.old_table, r.old_col, r.nmaq, r.o_tab, r.o_col, r.field_exists,
      r.note>>

unmatched_values(r) == <<r.old_table, r.old_col, r.reason>>

\* df_to_values(df): nothing at all for an empty frame, else header + rows.
df_to_values(columns, rows) ==
    IF rows = <<>> THEN <<>> ELSE <<columns>> \o rows

-----------------------------------------------------------------------------
(* The matrix view: main, lines 573-650                                    *)

TablesOf(rows) == {rows[i].old_table : i \in DOMAIN rows}

\* table_sort_key(t) = (not has_sheet, t.lower()), compared as a tuple.
has_sheet_of(st, t) == IF t \in DOMAIN st THEN st[t].has_sheet ELSE FALSE

\* A sort key without the has_sheet flag: t.lower() alone.
table_key_alphabetical(st, a, b) == str_lt(lower(a), lower(b))

table_key_lt(st, a, b) ==
    LET na == ~has_sheet_of(st, a)
        nb == ~has_sheet_of(st, b)
    IN  \/ (~na /\ nb)
        \/ (na = nb /\ str_lt(lower(a), lower(b)))

Perms(T) ==
    {f \in [1..Cardinality(T) -> T] :
        \A i, j \in 1..Cardinality(T) : i # j => f[i] # f[j]}

\* sorted(all_tables, key=table_sort_key): all_tables is a set, so tables
\* with equal keys come out in the set's iteration order, which is any order.
sorted_tables(st, all_tables) ==
    {f \in Perms(all_tables) :
        \A i, j \in DOMAIN f : i < j => ~table_key_lt(st, f[j], f[i])}

IsTable(t, r) == r.old_table = t

\* A matched cell that shows "pending" for an empty status.
matched_cell_pending(r) ==
    r.old_col \o <<" ", "(">>
        \o (IF r.field_exists = <<>>
            THEN <<"p", "e", "n", "d", "i", "n", "g">>
            ELSE r.field_exists)
        \o <<")">>

\* f"{Old Column Name} ({Does field exist in Ocotillo?})"
matched_cell(r) == r.old_col \o <<" ", "(">> \o r.field_exists \o <<")">>

\* f"{Old Column Name} (pending)"
unmatched_cell(r) ==
    r.old_col \o <<" ", "(", "p", "e", "n", "d", "i", "n", "g", ")">>

\* Lines 591-610: the cells of one table, matched rows first.
matrix_rows(t, m_rows, u_rows) ==
    MapSeq(matched_cell, SelectSeq(m_rows, LAMBDA r : IsTable(t, r)))
        \o MapSeq(unmatched_cell, SelectSeq(u_rows, LAMBDA r : IsTable(t, r)))

\* matrix_cols in insertion order: one [table, rows] per ordered table.
build_matrix_cols(ordered, m_rows, u_rows) ==
    [i \in DOMAIN ordered |->
        [table |-> ordered[i],
         rows |-> matrix_rows(ordered[i], m_rows, u_rows)]]

max_len_of(cols) ==
    IF cols = <<>> THEN 0
    ELSE CHOOSE n \in {Len(cols[i].rows) : i \in DOMAIN cols} :
             \A i \in DOMAIN cols : Len(cols[i].rows) <= n

\* Padding that puts the empty cells before the table's own cells.
pad_matrix_front(cols) ==
    [i \in DOMAIN cols |->
        [table |-> cols[i].table,
         rows |-> [k \in 1..(max_len_of(cols) - Len(cols[i].rows)) |->
                     EmptyCell]
                    \o cols[i].rows]]

\* Lines 647-649: rows.extend([""] * (max_len - len(rows)))
pad_matrix(cols) ==
    [i \in DOMAIN cols |->
        [table |-> cols[i].table,
         rows |-> cols[i].rows
                    \o [k \in 1..(max_len_of(cols) - Len(cols[i].rows)) |->
                          EmptyCell]]]

\* df_to_values(pd.DataFrame(matrix_cols)): the header row of table names,
\* then one row per index.
matrix_values(cols) ==
    IF cols = <<>> \/ max_len_of(cols) = 0 THEN <<>>
    ELSE <<[i \in DOMAIN cols |-> cols[i].table]>>
         \o [k \in 1..max_len_of(cols) |->
               [i \in DOMAIN cols |-> cols[i].rows[k]]]

-----------------------------------------------------------------------------
(* The legend: main, lines 617-675                                         *)

upper_char(c) ==
    IF \E i \in 1..26 : LowerAscii[i] = c
    THEN <<UpperAscii[CHOOSE i \in 1..26 : LowerAscii[i] = c]>>
    ELSE IF c = "U+00E9" THEN <<"U+00C9">>
    ELSE <<c>>

RECURSIVE upper(_)
upper(s) == IF s = <<>> THEN <<>> ELSE upper_char(Head(s)) \o upper(Tail(s))

status_of(r) ==
    LET val == normalize_name(r.field_exists)
    IN  IF lower(val) = <<"y", "e", "s">> THEN "yes"
        ELSE IF lower(val) = <<"n", "o">> THEN "no"
        ELSE IF upper(val) \in {<<"N", "/", "A">>, <<"N", "A">>} THEN "N/A"
        ELSE "other"

CountStatus(m_rows, st) ==
    Cardinality({i \in DOMAIN m_rows : status_of(m_rows[i]) = st})

status_counts(m_rows, u_rows) ==
    [yes |-> CountStatus(m_rows, "yes"),
     no |-> CountStatus(m_rows, "no"),
     na |-> CountStatus(m_rows, "N/A"),
     other |-> CountStatus(m_rows, "other") + Len(u_rows)]

DigitChars == <<"0", "1", "2", "3", "4", "5", "6", "7", "8", "9">>

RECURSIVE int_str(_)
int_str(n) ==
    IF n < 10 THEN <<DigitChars[n + 1]>>
    ELSE int_str(n \div 10) \o <<DigitChars[(n % 10) + 1]>>

\* str(round(100.0 * n / total, 1)); a tie at the second decimal, which the
\* float's binary value decides in Python, goes to the even tenth here.
pct_str(n, total) ==
    LET q == 1000 * n
        t == q \div total
        r == q % total
        tenths == IF 2 * r > total THEN t + 1
                  ELSE IF 2 * r = total /\ t % 2 = 1 THEN t + 1
                  ELSE t
    IN  int_str(tenths \div 10) \o <<".">> \o int_str(tenths % 10)

legend_cell(n, total) ==
    pct_str(n, total) \o <<"%", " ", "(">> \o int_str(n) \o <<"/">>
        \o int_str(total) \o <<")">>

legend_values(m_rows, u_rows) ==
    LET c == status_counts(m_rows, u_rows)
        sum == c.yes + c.no + c.na + c.other
        total == IF sum = 0 THEN 1 ELSE sum
    IN  << <<<<"L", "e", "g", "e", "n", "d">>>>,
           <<<<"G", "r", "e", "e", "n">>, <<"m", "i", "g", "r", "a", "t", "e", "d">>, legend_cell(c.yes, total)>>,
           <<<<"Y", "e", "l", "l", "o", "w">>, <<"w", "i", "l", "l", " ", "b", "e", " ", "m", "i", "g", "r", "a", "t", "e", "d">>, legend_cell(c.no, total)>>,
           <<<<"G", "r", "a", "y">>, <<"w", "o", "n", "'", "t", " ", "b", "e", " ", "m", "i", "g", "r", "a", "t", "e", "d">>, legend_cell(c.na, total)>>,
           <<<<"L", "i", "g", "h", "t", " ", "r", "e", "d">>, <<"p", "e", "n", "d", "i", "n", "g", " ", "a", "s", "s", "e", "s", "s", "m", "e", "n", "t">>,
             legend_cell(c.other, total)>> >>

\* The four rules add_conditional_formatting_for_matrix inserts at the
\* indexes 0..3.
MatrixRules == <<"(yes)", "(no)", "(N/A)", "catch-all">>

add_conditional_formatting_for_matrix(book, title) ==
    [tabs |-> [book.tabs EXCEPT ![TabIndex(book.tabs, title)].rules =
                  MatrixRules \o @],
     out_log |-> Append(book.out_log, OutputAction("format", title))]

APPLY_CONDITIONAL_FORMATTING == TRUE

\* Lines 645-695: what main does to the spreadsheet for a non-empty matrix.
write_matrix(book, cols, m_rows, u_rows) ==
    LET filed == to_file(book, "visual_matrix_for_sheets.csv")
        cleared == clear_sheet(ensure_sheet(filed, MATRIX_SHEET_NAME),
                               MATRIX_SHEET_NAME)
        legend == update_sheet(cleared, MATRIX_SHEET_NAME, 1,
                               legend_values(m_rows, u_rows))
        written == update_sheet(legend, MATRIX_SHEET_NAME, 6,
                                matrix_values(cols))
    IN  IF APPLY_CONDITIONAL_FORMATTING
        THEN add_conditional_formatting_for_matrix(written, MATRIX_SHEET_NAME)
        ELSE written

-----------------------------------------------------------------------------
(* Regular expressions.  A pattern is a sequence of items; of the ways the  *)
(* items can match, the one is taken that Python's backtracking finds      *)
(* first.  Every pattern of the scripts has at most one group.             *)

\* A character class with its quantifier: at least `min` characters and,
\* unless `more`, at most one; `lazy` takes as few as it can.  With
\* re.IGNORECASE a class of lower-case letters takes the upper case too.
Cls(chars, neg, min, more, lazy) ==
    [k |-> "set", chars |-> chars, neg |-> neg, min |-> min, more |-> more,
     lazy |-> lazy]

Lit(c) == Cls({c}, FALSE, 1, FALSE, FALSE)
Opt(c) == Cls({c}, FALSE, 0, FALSE, FALSE)
Star(chars) == Cls(chars, FALSE, 0, TRUE, FALSE)
Plus(chars) == Cls(chars, FALSE, 1, TRUE, FALSE)
\* A run of literal characters, written in lower case.
Text(text) == [k |-> "text", text |-> text]
GroupOpen == [k |-> "open"]
GroupClose == [k |-> "close"]
GroupRef == [k |-> "ref"]
Bol == [k |-> "bol"]
Eol == [k |-> "eol"]
WordBoundary == [k |-> "wb"]

InClass(c, it) == (c \in it.chars \/ lower_char(c)[1] \in it.chars) # it.neg

\* The characters \w takes.
WordChars ==
    KeyChars \cup Range(UpperAscii) \cup {"_", "U+212A", "U+00C9", "U+00E9"}

IsWordAt(s, i) == i \in DOMAIN s /\ s[i] \in WordChars

\* s[pos+1..] starts with text, case ignored.
TextAt(s, pos, text) ==
    /\ pos + Len(text) <= Len(s)
    /\ \A j \in DOMAIN text : lower_char(s[pos + j]) = lower_char(text[j])

\* How many characters after the first `pos` the class can take.
re_run(it, s, pos) ==
    LET Takes(n) == \A j \in 1..n : InClass(s[pos + j], it)
        longest == CHOOSE n \in 0..(Len(s) - pos) :
                       /\ Takes(n)
                       /\ n = Len(s) - pos \/ ~InClass(s[pos + n + 1], it)
    IN  IF pos >= Len(s) THEN 0
        ELSE IF it.more THEN longest
        ELSE IF InClass(s[pos + 1], it) THEN 1 ELSE 0

NoMatch == [ok |-> FALSE, start |-> 0, end |-> 0, from |-> 0, to |-> 0]

SetMin(S) == CHOOSE n \in S : \A m \in S : n <= m

\* Where a match stands between two items: the characters of s read so far
\* and the bounds of the group.
MatchState(pos, from, to) == [pos |-> pos, from |-> from, to |-> to]

\* The states the item `it` can lead to from the state st.
re_step(it, s, st) ==
    CASE it.k = "set" ->
           {[st EXCEPT !.pos = st.pos + m] :
               m \in it.min..re_run(it, s, st.pos)}
      [] it.k = "text" ->
           IF TextAt(s, st.pos, it.text)
           THEN {[st EXCEPT !.pos = st.pos + Len(it.text)]} ELSE {}
      [] it.k = "open" -> {[st EXCEPT !.from = st.pos]}
      [] it.k = "close" -> {[st EXCEPT !.to = st.pos]}
      [] it.k = "ref" ->
           IF TextAt(s, st.pos, SubSeq(s, st.from + 1, st.to))
           THEN {[st EXCEPT !.pos = st.pos + st.to - st.from]} ELSE {}
      [] it.k = "bol" -> IF st.pos = 0 THEN {st} ELSE {}
      [] it.k = "eol" ->
           IF \/ st.pos = Len(s)
              \/ st.pos + 1 = Len(s) /\ s[Len(s)] = "\n"
           THEN {st} ELSE {}
      [] it.k = "wb" ->
           IF IsWordAt(s, st.pos) # IsWordAt(s, st.pos + 1)
           THEN {st} ELSE {}

\* The states after each of the first items, as far as any is left: R
\* holds the sets after 0..Len(R)-1 items.
RECURSIVE re_forward(_, _, _)
re_forward(items, s, R) ==
    IF Len(R) > Len(items) \/ R[Len(R)] = {} THEN R
    ELSE Bind(LAMBDA longer : re_forward(items, s, longer),
              Append(R, UNION {re_step(items[Len(R)], s, st) :
                                  st \in R[Len(R)]}))

\* Of the states of R, those from which the rest of the items match: B
\* holds the sets after Len(R)-Len(B)..Len(R)-1 items.
RECURSIVE re_backward(_, _, _, _)
re_backward(items, s, R, B) ==
    IF Len(B) = Len(R) THEN B
    ELSE Bind(LAMBDA longer : re_backward(items, s, R, longer),
              <<{st \in R[Len(R) - Len(B)] :
                    re_step(items[Len(R) - Len(B)], s, st) \cap B[1] # {}}>>
                  \o B)

\* What backtracking takes of the states Next an item leads to: the most
\* characters for a greedy class, the fewest for a lazy one.
re_prefer(it, Next) ==
    IF it.k = "set" /\ it.lazy
    THEN CHOOSE n \in Next : \A m \in Next : n.pos <= m.pos
    ELSE CHOOSE n \in Next : \A m \in Next : m.pos <= n.pos

\* The state after the item k.. of the match that begins in the state st.
RECURSIVE re_path(_, _, _, _, _)
re_path(items, s, B, k, st) ==
    IF k > Len(items) THEN st
    ELSE Bind(LAMBDA next : re_path(items, s, B, k + 1, next),
              re_prefer(items[k], re_step(items[k], s, st) \cap B[k + 1]))

\* pattern.match(s, pos)
re_match(items, s, pos) ==
    Bind(LAMBDA R :
           IF Len(R) <= Len(items) \/ R[Len(R)] = {} THEN NoMatch
           ELSE Bind(LAMBDA B :
                       Bind(LAMBDA end :
                              [ok |-> TRUE, start |-> pos, end |-> end.pos,
                               from |-> end.from, to |-> end.to],
                            re_path(items, s, B, 1, MatchState(pos, 0, 0))),
                     re_backward(items, s, R, <<R[Len(R)]>>)),
         re_forward(items, s, <<{MatchState(pos, 0, 0)}>>))

\* pattern.search(s, pos): the leftmost match.
re_search(items, s, pos) ==
    Bind(LAMBDA Starts :
           IF Starts = {} THEN NoMatch
           ELSE re_match(items, s, SetMin(Starts)),
         {p \in pos..Len(s) : re_match(items, s, p).ok})

\* m.group(name)
group(s, m) == SubSeq(s, m.from + 1, m.to)

\* The two references a replacement template can hold.
GROUP_REF == "\\g<1>"
MATCH_REF == "\\g<0>"

\* The replacement for one match: the template with its references filled.
RECURSIVE expand(_, _, _)
expand(parts, s, m) ==
    IF parts = <<>> THEN <<>>
    ELSE (IF Head(parts) = GROUP_REF THEN group(s, m)
          ELSE IF Head(parts) = MATCH_REF THEN SubSeq(s, m.start + 1, m.end)
          ELSE <<Head(parts)>>) \o expand(Tail(parts), s, m)

\* pattern.sub(template, s): every match, left to right, none overlapping.
\* No pattern of the scripts matches the empty string.
RECURSIVE re_sub_from(_, _, _, _)
re_sub_from(items, parts, s, pos) ==
    Bind(LAMBDA m :
           IF ~m.ok \/ m.end = m.start THEN SubSeq(s, pos + 1, Len(s))
           ELSE SubSeq(s, pos + 1, m.start) \o expand(parts, s, m)
                    \o re_sub_from(items, parts, s, m.end),
         re_search(items, s, pos))

re_sub(items, parts, s) ==
    Bind(LAMBDA text : re_sub_from(items, parts, text, 0), s)

OctDigits == <<"0", "1", "2", "3", "4", "5", "6", "7">>

HexDigits ==
    <<"0", "1", "2", "3", "4", "5", "6", "7", "8", "9", "A", "B", "C", "D",
      "E", "F">>

\* The characters of the codes 32..126; the grave accent is written U+0060.
Printable ==
    <<" ", "!", "\"", "#", "$", "%", "&", "'", "(", ")", "*", "+", ",",
      "-", ".", "/", "0", "1", "2", "3", "4", "5", "6", "7", "8", "9", ":",
      ";", "<", "=", ">", "?", "@", "A", "B", "C", "D", "E", "F", "G", "H",
      "I", "J", "K", "L", "M", "N", "O", "P", "Q", "R", "S", "T", "U", "V",
      "W", "X", "Y", "Z", "[", "\\", "]", "^", "_", "U+0060", "a", "b", "c",
      "d", "e", "f", "g", "h", "i", "j", "k", "l", "m", "n", "o", "p", "q",
      "r", "s", "t", "u", "v", "w", "x", "y", "z", "{", "|", "}", "~">>

\* chr(code) for a code below 256: a character without a glyph of its own
\* in the model is written U+00XX.
chr(code) ==
    IF code = 9 THEN "\t"
    ELSE IF code = 10 THEN "\n"
    ELSE IF code >= 32 /\ code <= 126 THEN Printable[code - 31]
    ELSE "U+00" \o HexDigits[(code \div 16) + 1] \o HexDigits[(code % 16) + 1]

\* The value of an octal digit.
oct(d) == (CHOOSE i \in DOMAIN OctDigits : OctDigits[i] = d) - 1

\* The escapes of a replacement template: \a \b \f \n \r \t \v \\
ESCAPES ==
    [c \in {"a", "b", "f", "n", "r", "t", "v", "\\"} |->
        CASE c = "a" -> chr(7)
          [] c = "b" -> chr(8)
          [] c = "f" -> chr(12)
          [] c = "n" -> chr(10)
          [] c = "r" -> chr(13)
          [] c = "t" -> chr(9)
          [] c = "v" -> chr(11)
          [] c = "\\" -> "\\"]

TemplateError == [raises |-> TRUE, parts |-> <<>>]

TemplateCons(front, rest) ==
    IF rest.raises THEN TemplateError
    ELSE [raises |-> FALSE, parts |-> front \o rest.parts]

\* The position of the first c in t, or 0.
IndexOf(t, c) ==
    IF \E i \in DOMAIN t : t[i] = c
    THEN CHOOSE i \in DOMAIN t : t[i] = c /\ \A j \in 1..(i - 1) : t[j] # c
    ELSE 0

\* The parsing of the replacement template t from its character i on, for
\* a pattern whose one group has the name `name`: re.error for a backslash
\* at the end, for a backslash before an ASCII letter that is no escape, and
\* for a reference to a group the pattern has not.
RECURSIVE parse_template_from(_, _, _)
parse_template_from(t, i, name) ==
    IF i > Len(t) THEN [raises |-> FALSE, parts |-> <<>>]
    ELSE IF t[i] # "\\"
    THEN TemplateCons(<<t[i]>>, parse_template_from(t, i + 1, name))
    ELSE IF i = Len(t) THEN TemplateError
    ELSE LET c == t[i + 1]
             after(n) == parse_template_from(t, i + n, name)
             IsOct(j) == j \in DOMAIN t /\ t[j] \in Range(OctDigits)
             IsDigit(j) == j \in DOMAIN t /\ t[j] \in Digits
             close == IndexOf(SubSeq(t, i, Len(t)), ">")
             ref == SubSeq(t, i + 3, i + close - 2)
         IN  IF c \in DOMAIN ESCAPES THEN TemplateCons(<<ESCAPES[c]>>, after(2))
             ELSE IF c = "g"
             THEN IF i + 2 > Len(t) \/ t[i + 2] # "<" \/ close = 0
                  THEN TemplateError
                  ELSE IF ref \in {name, <<"1">>}
                  THEN TemplateCons(<<GROUP_REF>>, after(close))
                  ELSE IF ref = <<"0">>
                  THEN TemplateCons(<<MATCH_REF>>, after(close))
                  ELSE TemplateError
             ELSE IF c = "0"
             THEN IF IsOct(i + 2) /\ IsOct(i + 3)
                  THEN TemplateCons(
                           <<chr(8 * oct(t[i + 2]) + oct(t[i + 3]))>>,
                           after(4))
                  ELSE IF IsOct(i + 2)
                  THEN TemplateCons(<<chr(oct(t[i + 2]))>>, after(3))
                  ELSE TemplateCons(<<chr(0)>>, after(2))
             ELSE IF c \in Digits
             THEN IF c \in Range(OctDigits) /\ IsOct(i + 2) /\ IsOct(i + 3)
                  THEN IF c \in {"4", "5", "6", "7"} THEN TemplateError
                       ELSE TemplateCons(
                                <<chr(64 * oct(c) + 8 * oct(t[i + 2])
                                          + oct(t[i + 3]))>>, after(4))
                  ELSE IF IsDigit(i + 2) THEN TemplateError
                  ELSE IF c = "1" THEN TemplateCons(<<GROUP_REF>>, after(2))
                  ELSE TemplateError
             ELSE IF c \in Range(LowerAscii) \cup Range(UpperAscii)
             THEN TemplateError
             ELSE TemplateCons(<<"\\", c>>, after(2))

parse_template(t, name) ==
    Bind(LAMBDA text : parse_template_from(text, 1, name), t)

-----------------------------------------------------------------------------
(* transfer_to_amp_review.py                                               *)

SHEET_NAME == <<"A", "M", "P", "_", "r", "e", "v", "i", "e", "w">>

HEADER_CANON == <<"p", "o", "i", "n", "t", "i", "d", "|", "t", "a", "b", "l",
    "e", "|", "f", "i", "e", "l", "d", "|", "e", "r", "r", "o", "r">>

\* canon(s)
canon(s) == lower(strip(s))

\* _row_id_re: \brow\.id\s*=\s*\d+,\s*
row_id_re ==
    <<WordBoundary>> \o <<Text(<<"r", "o", "w", ".", "i",
        "d">>)>> \o <<Star(Whitespace), Lit("="),
      Star(Whitespace), Plus(Digits), Lit(","), Star(Whitespace)>>

\* _sensor_type_re: key\s+error\s+adding\s+sensor_type\s*:\s*
\*                  (?P<stype>[^,|]+?)\s*error\s*:\s*'?(?P=stype)'?
sensor_type_re ==
    <<Text(<<"k", "e", "y">>)>> \o <<Plus(Whitespace)>> \o <<Text(<<"e", "r",
        "r", "o", "r">>)>>
        \o <<Plus(Whitespace)>> \o <<Text(<<"a", "d", "d", "i", "n",
            "g">>)>> \o <<Plus(Whitespace)>>
        \o <<Text(<<"s", "e", "n", "s", "o", "r", "_", "t", "y", "p", "e">>)>>
        \o <<Star(Whitespace), Lit(":"), Star(Whitespace), GroupOpen,
             Cls({",", "|"}, TRUE, 1, TRUE, TRUE), GroupClose,
             Star(Whitespace)>>
        \o <<Text(<<"e", "r", "r", "o", "r">>)>>
        \o <<Star(Whitespace), Lit(":"), Star(Whitespace), Opt("'"),
             GroupRef, Opt("'")>>

\* _org_missing_re: key\s*\(organization\)\s*=\s*\((?P<org>[^)]+)\)\s*is
\*                  \s*not\s*present\s*in\s*table\s*"?"?lexicon_term"?"?\.
org_missing_re ==
    <<Text(<<"k", "e", "y">>)>> \o <<Star(Whitespace)>> \o <<Text(<<"(", "o",
        "r", "g", "a", "n", "i", "z", "a", "t", "i", "o", "n", ")">>)>>
        \o <<Star(Whitespace), Lit("="), Star(Whitespace), Lit("("),
             GroupOpen, Cls({")"}, TRUE, 1, TRUE, FALSE), GroupClose,
             Lit(")"), Star(Whitespace)>>
        \o <<Text(<<"i", "s">>)>> \o <<Star(Whitespace)>> \o <<Text(<<"n",
            "o", "t">>)>>
        \o <<Star(Whitespace)>> \o <<Text(<<"p", "r", "e", "s", "e", "n",
            "t">>)>> \o <<Star(Whitespace)>>
        \o <<Text(<<"i", "n">>)>> \o <<Star(Whitespace)>> \o <<Text(<<"t",
            "a", "b", "l", "e">>)>>
        \o <<Star(Whitespace), Opt("\""), Opt("\"")>>
        \o <<Text(<<"l", "e", "x", "i", "c", "o", "n", "_", "t", "e", "r",
            "m">>)>> \o <<Opt("\""), Opt("\""), Lit(".")>>

\* _value_error_prefix_re: ^\s*value\s*error\s*[,:\-]\s*
value_error_prefix_re ==
    <<Bol, Star(Whitespace)>> \o <<Text(<<"v", "a", "l", "u",
        "e">>)>> \o <<Star(Whitespace)>>
        \o <<Text(<<"e", "r", "r", "o", "r">>)>>
        \o <<Star(Whitespace), Cls({",", ":", "-"}, FALSE, 1, FALSE, FALSE),
             Star(Whitespace)>>

\* \s{2,}
spaces_re == <<Cls(Whitespace, FALSE, 2, TRUE, FALSE)>>

\* [\s\|,]+$
trailing_re == <<Plus(Whitespace \cup {"|", ","}), Eol>>

\* The straight and the two smart double quotes.
DoubleQuotes == {"\"", "U+201C", "U+201D"}

NotDoubleQuote(c) == c \notin DoubleQuotes

ErrorRaised == [raises |-> TRUE, out |-> <<>>]

\* The tail of clean_error without the value-error rule.
clean_tail_keep_prefix(out) ==
    [raises |-> FALSE,
     out |-> re_sub(trailing_re, <<>>,
                 strip(re_sub(spaces_re, <<" ">>,
                     SelectSeq(out, NotDoubleQuote))))]

\* Lines 62-68: the value-error prefix, the double quotes, the runs of
\* whitespace and the trailing punctuation.
clean_tail(out) ==
    [raises |-> FALSE,
     out |-> re_sub(trailing_re, <<>>,
                 strip(re_sub(spaces_re, <<" ">>,
                     SelectSeq(re_sub(value_error_prefix_re, <<>>, out),
                               NotDoubleQuote))))]

\* Lines 54-61 for one of the two phrases: if the pattern is found, every
\* match of it is replaced by the label and the stripped group of the
\* first match, used as a template.
clean_phrase(pattern, label, name, out, Then(_)) ==
    Bind(LAMBDA m :
           IF ~m.ok THEN Then(out)
           ELSE Bind(LAMBDA t :
                       IF t.raises THEN ErrorRaised
                       ELSE Bind(Then, re_sub(pattern, t.parts, out)),
                     parse_template(label \o strip(group(out, m)), name)),
         re_search(pattern, out, 0))

clean_org(out) ==
    clean_phrase(org_missing_re, <<"I", "n", "v", "a", "l", "i", "d", " ",
        "o", "r", "g", "a", "n", "i", "z", "a", "t", "i", "o", "n", ":",
        " ">>, <<"o", "r", "g">>, out,
                 clean_tail)

clean_sensor(out) ==
    clean_phrase(sensor_type_re, <<"I", "n", "v", "a", "l", "i", "d", " ",
        "s", "e", "n", "s", "o", "r", "_", "t", "y", "p", "e", ":",
        " ">>, <<"s", "t", "y", "p", "e">>, out,
                 clean_org)

\* clean_error(msg): the cleaned text, or re.error out of a template.
clean_error(msg) ==
    IF msg = <<>> THEN [raises |-> FALSE, out |-> msg]
    ELSE Bind(clean_sensor, re_sub(row_id_re, <<>>, msg))

\* sep.join(parts)
RECURSIVE join(_, _)
join(parts, sep) ==
    IF parts = <<>> THEN <<>>
    ELSE IF Len(parts) = 1 THEN parts[1]
    ELSE parts[1] \o sep \o join(Tail(parts), sep)

\* Lines 96-100: the error part and the parts after it, joined again.
combined_error(parts) ==
    LET extra == IF Len(parts) > 4
                 THEN strip(join(SubSeq(parts, 5, Len(parts)), <<" ", "|",
                     " ">>))
                 ELSE <<>>
    IN  IF extra = <<>> THEN parts[4]
        ELSE parts[4] \o <<" ", "|", " ">> \o extra

\* Lines 95-103: the row of the stripped parts of a data line.
row_of_parts(parts) ==
    LET nm_tf == IF parts[3] # <<>> THEN parts[2] \o <<".">> \o parts[3]
                 ELSE parts[2]
    IN  Bind(LAMBDA cleaned :
               IF cleaned.raises THEN [raises |-> TRUE, rows |-> <<>>]
               ELSE [raises |-> FALSE,
                     rows |-> <<<<nm_tf, parts[1], cleaned.out>>>>],
             clean_error(combined_error(parts)))

\* Lines 93-103: the row of one data line, if it has four parts.
amp_row(raw) ==
    Bind(LAMBDA parts :
           IF Len(parts) < 4 THEN [raises |-> FALSE, rows |-> <<>>]
           ELSE row_of_parts(parts),
         MapSeq(strip, split(raw, "|")))

\* parse_amp_rows, lines 80-107: parse_lines is the outer loop at line i,
\* parse_block the inner loop; acc is [raises, rows].
RECURSIVE parse_lines(_, _, _)
RECURSIVE parse_block(_, _, _)
parse_lines(lines, i, acc) ==
    IF acc.raises \/ i > Len(lines) THEN acc
    ELSE IF strip(lines[i]) # <<>> /\ canon(strip(lines[i])) = HEADER_CANON
    THEN parse_block(lines, i + 1, acc)
    ELSE parse_lines(lines, i + 1, acc)

parse_block(lines, i, acc) ==
    IF acc.raises \/ i > Len(lines) THEN acc
    ELSE IF strip(lines[i]) = <<>> \/ canon(strip(lines[i])) = HEADER_CANON
    THEN parse_lines(lines, i, acc)
    ELSE Bind(LAMBDA next : parse_block(lines, i + 1, next),
              Bind(LAMBDA r : [raises |-> r.raises,
                               rows |-> acc.rows \o r.rows],
                   amp_row(lines[i])))

\* parse_amp_rows(path) for a file that exists.
parse_amp_rows(lines) ==
    parse_lines(lines, 1, [raises |-> FALSE, rows |-> <<>>])

\* (r[0].strip(), r[1].strip(), r[2].strip())
row_key(r) == <<strip(r[1]), strip(r[2]), strip(r[3])>>

\* The batch as it is, a row with a key seen before included.
keep_batch(rows, seen_batch) == rows

\* main, lines 145-151: the first row of every key.
RECURSIVE dedup_batch(_, _)
dedup_batch(rows, seen_batch) ==
    IF rows = <<>> THEN <<>>
    ELSE IF row_key(Head(rows)) \in seen_batch
    THEN dedup_batch(Tail(rows), seen_batch)
    ELSE <<Head(rows)>>
             \o dedup_batch(Tail(rows), seen_batch \cup {row_key(Head(rows))})

Min(a, b) == IF a <= b THEN a ELSE b

\* values().get of the columns 1..ncols of a tab.
get_values(g, ncols) ==
    trim_grid([i \in DOMAIN g |-> SubSeq(g[i], 1, Min(ncols, Len(g[i])))])

\* The last column of the range A:C.
A_C_COLUMNS == 3

AMP_HEADER == <<<<"N", "M", "A", "q", "u", "i", "f", "e", "r", "_", "T", "a",
    "b", "l", "e", ".", "F", "i", "e", "l", "d">>, <<"P", "o", "i", "n", "t",
    "I", "D">>, <<"E", "r", "r", "o", "r">>>>

AMP_HEADER_LOWER == <<<<"n", "m", "a", "q", "u", "i", "f", "e", "r", "_",
    "t", "a", "b", "l", "e", ".", "f", "i", "e", "l", "d">>, <<"p", "o", "i",
    "n", "t", "i", "d">>, <<"e", "r", "r", "o", "r">>>>

\* load_existing_set, lines 123-136, for the values of A1:C.
load_existing_set(values) ==
    LET start == IF [j \in DOMAIN values[1] |->
                        lower(strip(values[1][j]))] = AMP_HEADER_LOWER
                 THEN 1 ELSE 0
        triple(row) == <<strip(Cell(<<row>>, 1, 1)), strip(Cell(<<row>>, 1, 2)),
                         strip(Cell(<<row>>, 1, 3))>>
    IN  IF values = <<>> THEN [existing |-> {}, height |-> 0]
        ELSE [existing |->
                  {triple(values[i]) : i \in (start + 1)..Len(values)}
                      \ {<<<<>>, <<>>, <<>>>>},
              height |-> Len(values)]

\* ensure_tab(service, spreadsheet_id, tab_name)
ensure_tab(book, tab_name) ==
    IF HasTab(book.tabs, tab_name) THEN book
    ELSE [tabs |-> Append(book.tabs, NewTab(tab_name)),
          out_log |-> Append(book.out_log, OutputAction("addSheet", tab_name))]

\* values().append to A:C with INSERT_ROWS: the rows go in after the last
\* row of the table in A:C, which in the sheets of this model is the last
\* row that holds a value.
append_values(g, new) ==
    LET height == Len(get_values(g, A_C_COLUMNS))
    IN  trim_grid(SubSeq(g, 1, height) \o new
                      \o SubSeq(g, height + 1, Len(g)))

append_sheet(book, title, new) ==
    [tabs |-> [book.tabs EXCEPT ![TabIndex(book.tabs, title)].values =
                  append_values(@, new)],
     out_log |-> Append(book.out_log, OutputAction("append", title))]

-----------------------------------------------------------------------------
(* The other readers of the transfer log: transfermetrics.py,             *)
(* transfermetrics_2.py and transfermetrics_3.py                          *)

\* s.split(sep, maxsplit) for a one-character separator.
RECURSIVE split_max(_, _, _)
split_max(s, sep, maxsplit) ==
    IF maxsplit = 0 \/ IndexOf(s, sep) = 0 THEN <<s>>
    ELSE <<SubSeq(s, 1, IndexOf(s, sep) - 1)>>
             \o split_max(SubSeq(s, IndexOf(s, sep) + 1, Len(s)), sep,
                          maxsplit - 1)

\* parts + [""] * (4 - len(parts))
pad_parts(parts) == parts \o [k \in 1..(4 - Len(parts)) |-> <<>>]

\* The first four parts of a line split at every pipe.
split_all_parts(ln) ==
    MapSeq(strip, SubSeq(pad_parts(split(ln, "|")), 1, 4))

\* transfermetrics.py, lines 88-93: the four parts of a data line.
robust_read_parts(ln) == MapSeq(strip, pad_parts(split_max(ln, "|", 3)))

\* robust_read_transfer_metrics, lines 85-95: the rows of one line.
robust_read_transfer_metrics(ln) ==
    IF strip(ln) = <<>> THEN <<>> ELSE <<robust_read_parts(ln)>>

\* transfermetrics_2.py, lines 72-83: the parts of one line and the label
\* counted for it.
robust_read_counts(ln) ==
    IF strip(ln) = <<>> THEN <<>>
    ELSE LET parts == MapSeq(strip, pad_parts(split_max(ln, "|", 3)))
         IN  <<[parts |-> parts,
                key |-> lower(strip(IF parts[3] # <<>>
                                    THEN parts[2] \o <<".">> \o parts[3]
                                    ELSE parts[2]))]>>

\* transfermetrics_3.py split_point_row(line)
split_point_row(line) ==
    pad_parts(MapSeq(strip, split_max(line, "|", 3)))

\* transfer_to_amp_review.py, lines 93-100: the stripped parts of a data
\* line and the error text handed to clean_error.
amp_parts(raw) ==
    LET parts == MapSeq(strip, split(raw, "|"))
    IN  IF strip(raw) = <<>> \/ Len(parts) < 4 THEN <<>>
        ELSE <<[parts |-> SubSeq(parts, 1, 3),
                combined_error |-> combined_error(parts)]>>

-----------------------------------------------------------------------------
(* build_field_pairs_flat.py and build_field_pairs_sheet.py: the two       *)
(* report files.  A CSV file is [exists, columns, rows]: its header and    *)
(* its rows of cell texts.                                                 *)

OUTPUT_SHEET_NAME == <<"F", "i", "e", "l", "d", "P", "a", "i", "r", "s">>
NMAQUIFER_TABLEFIELD == <<"N", "M", "A", "q", "u", "i", "f", "e", "r", "_",
    "T", "a", "b", "l", "e", "F", "i", "e", "l", "d">>
OCOTILLO_TABLEFIELD == <<"O", "c", "o", "t", "i", "l", "l", "o", "_", "T",
    "a", "b", "l", "e", "F", "i", "e", "l", "d">>
NMAQUIFER_FIELD == <<"N", "M", "A", "q", "u", "i", "f", "e", "r", "_", "F",
    "i", "e", "l", "d">>

\* The cell texts pd.read_csv takes for a missing value.
NA_VALUES ==
    {<<>>, <<"#", "N", "/", "A">>, <<"#", "N", "/", "A", " ", "N", "/",
        "A">>, <<"#", "N", "A">>, <<"-", "1", ".", "#", "I", "N",
        "D">>, <<"-", "1", ".", "#", "Q", "N", "A", "N">>, <<"-", "N", "a",
        "N">>, <<"-", "n", "a", "n">>,
     <<"1", ".", "#", "I", "N", "D">>, <<"1", ".", "#", "Q", "N", "A",
         "N">>, <<"<", "N", "A", ">">>, <<"N", "/", "A">>, <<"N",
         "A">>, <<"N", "U", "L", "L">>, <<"N", "a", "N">>, <<"N", "o", "n",
         "e">>, <<"n", "/", "a">>,
     <<"n", "a", "n">>, <<"n", "u", "l", "l">>}

read_cell(text) == IF text \in NA_VALUES THEN NaN ELSE text

\* pd.read_csv(path, dtype=str)
read_csv(file) ==
    [columns |-> file.columns,
     rows |-> [i \in DOMAIN file.rows |->
                 [c \in Range(file.columns) |->
                    read_cell(file.rows[i][ColIndex(file.columns, c)])]]]

REQUIRED_COLS_M == {OLD_TABLE_NAME, OLD_COLUMN_NAME, COL_OTAB, COL_OFIELD}
PAIR_COLS == <<OLD_TABLE_NAME, OLD_COLUMN_NAME>>

\* tmp[["Old Table Name", "Old Column Name"]].copy()
select_columns(df, cols) ==
    [columns |-> cols,
     rows |-> [i \in DOMAIN df.rows |->
                 [c \in Range(cols) |-> df.rows[i][c]]]]

\* The unmatched frame: empty unless the file is there with both columns.
load_unmatched(file) ==
    IF file.exists /\ Range(PAIR_COLS) \subseteq Range(file.columns)
    THEN select_columns(read_csv(file), PAIR_COLS)
    ELSE [columns |-> PAIR_COLS, rows |-> <<>>]

\* What ends the run while the matched file is loaded, "" if nothing does.
load_exit(file) ==
    IF ~file.exists THEN "Required file not found"
    ELSE IF ~(REQUIRED_COLS_M \subseteq Range(file.columns))
    THEN "must contain columns"
    ELSE ""

\* "" if pd.isna(x) else str(x).strip()
text_or_empty(x) == IF isna(x) THEN <<>> ELSE strip(str(x))

\* (str(row["Old Table Name"]).strip(), str(row["Old Column Name"]).strip())
pair_key(row) ==
    <<strip(str(row[OLD_TABLE_NAME])), strip(str(row[OLD_COLUMN_NAME]))>>

pair_keys(rows) == [i \in DOMAIN rows |-> pair_key(rows[i])]

\* The values of seq in the order of their first occurrence.
RECURSIVE first_seen(_, _)
first_seen(seq, seen) ==
    IF seq = <<>> THEN <<>>
    ELSE IF Head(seq) \in seen THEN first_seen(Tail(seq), seen)
    ELSE <<Head(seq)>> \o first_seen(Tail(seq), seen \cup {Head(seq)})

\* The first row that has the key.
FirstRow(rows, key) ==
    rows[CHOOSE i \in DOMAIN rows :
             /\ pair_key(rows[i]) = key
             /\ \A j \in 1..(i - 1) : pair_key(rows[j]) # key]

\* a < b for tuples of two strings
pair_lt(a, b) ==
    \/ str_lt(a[1], b[1])
    \/ a[1] = b[1] /\ str_lt(a[2], b[2])

\* sorted(S) for a set of values no two of which are equal.
sorted_by(S, Lt(_, _)) ==
    [i \in 1..Cardinality(S) |->
        CHOOSE p \in S : Cardinality({q \in S : Lt(q, p)}) = i - 1]

-----------------------------------------------------------------------------
(* build_field_pairs_flat.py                                               *)

\* Lines 118-125
flat_formatted(o_tab, o_field) ==
    IF o_tab # <<>> /\ o_field # <<>> THEN o_tab \o <<".">> \o o_field
    ELSE IF o_tab # <<>> THEN o_tab \o <<".">>
    ELSE IF o_field # <<>> THEN <<".">> \o o_field
    ELSE <<>>

\* Lines 110-130: for each key the text of the first row that has it.
flat_mapping(rows) ==
    [key \in Range(pair_keys(rows)) |->
        flat_formatted(text_or_empty(FirstRow(rows, key)[COL_OTAB]),
                       text_or_empty(FirstRow(rows, key)[COL_OFIELD]))]

\* Lines 133-143: the keys of the ordered dictionary `pairs`, those of the
\* matched rows and then those of the unmatched rows.
flat_pairs(m_rows, u_rows) ==
    first_seen(pair_keys(m_rows) \o pair_keys(u_rows), {})

\* The keys in the order the dictionary holds them.
listed_keys(pairs) == pairs

\* sorted(pairs.keys())
sorted_keys(pairs) == sorted_by(Range(pairs), pair_lt)

\* Lines 146-153: one row for each key.
flat_rows(keys, mapping) ==
    [i \in DOMAIN keys |->
        <<keys[i][1] \o <<".">> \o keys[i][2],
          IF keys[i] \in DOMAIN mapping THEN mapping[keys[i]] ELSE <<>>>>]

\* Line 168: the header and the rows.
flat_values(rows) == <<<<NMAQUIFER_TABLEFIELD, OCOTILLO_TABLEFIELD>>>> \o rows

\* Lines 156-175: the local file, then the tab.
write_flat(book, rows) ==
    update_sheet(
        clear_sheet(ensure_sheet(to_file(book, "FieldPairs_flat.csv"),
                                 OUTPUT_SHEET_NAME),
                    OUTPUT_SHEET_NAME),
        OUTPUT_SHEET_NAME, 1, flat_values(rows))

-----------------------------------------------------------------------------
(* build_field_pairs_sheet.py                                              *)

\* Lines 154-161
wide_formatted(o_tab, o_field) ==
    IF o_tab = <<>> /\ o_field = <<>> THEN <<>>
    ELSE IF o_tab # <<>> /\ o_field # <<>> THEN o_tab \o <<",",
        " ">> \o o_field
    ELSE IF o_tab # <<>> THEN o_tab \o <<",", " ">>
    ELSE <<",", " ">> \o o_field

wide_formatted_row(row) ==
    wide_formatted(text_or_empty(row[COL_OTAB]),
                   text_or_empty(row[COL_OFIELD]))

\* mapping.get(key, []): the texts of the rows with the key that are not
\* empty, in the order of the rows.
RECURSIVE wide_mapping_get(_, _)
wide_mapping_get(rows, key) ==
    IF rows = <<>> THEN <<>>
    ELSE (IF pair_key(Head(rows)) = key
             /\ wide_formatted_row(Head(rows)) # <<>>
          THEN <<wide_formatted_row(Head(rows))>> ELSE <<>>)
             \o wide_mapping_get(Tail(rows), key)

\* df["Old Table Name"].dropna().unique(), as a set
table_names(df) ==
    {df.rows[i][OLD_TABLE_NAME] : i \in DOMAIN df.rows} \ {NaN}

\* Lines 170-173
sorted_table_names(m, u) ==
    sorted_by(table_names(m) \cup table_names(u), str_lt)

\* The stripped field names of the rows whose table name is `table`.
RECURSIVE fields_of(_, _)
fields_of(rows, table) ==
    IF rows = <<>> THEN <<>>
    ELSE (IF Head(rows)[OLD_TABLE_NAME] = table
          THEN <<strip(str(Head(rows)[OLD_COLUMN_NAME]))>> ELSE <<>>)
             \o fields_of(Tail(rows), table)

\* Every name kept, however often it occurs.
not_deduped(fields) == fields

\* Lines 196-201
deduped(fields) == first_seen(fields, {})

\* Lines 181-203: the fields of one table, matched before unmatched.
fields_of_table(m, u, table) ==
    deduped(fields_of(m.rows, table) \o fields_of(u.rows, table))

\* Lines 178-205, as the list of the dictionary's items.
build_table_fields(m, u) ==
    [i \in DOMAIN sorted_table_names(m, u) |->
        [table |-> sorted_table_names(m, u)[i],
         fields |-> fields_of_table(m, u, sorted_table_names(m, u)[i])]]

max_len(tf) ==
    IF tf = <<>> THEN 0 ELSE MaxRowLen([i \in DOMAIN tf |-> tf[i].fields])

\* The two cells of row i for one table.
wide_cells(m, item, i) ==
    IF i <= Len(item.fields)
    THEN <<item.fields[i],
           join(wide_mapping_get(m.rows, <<item.table, item.fields[i]>>),
                <<" ", "|", " ">>)>>
    ELSE <<EmptyCell, EmptyCell>>

RECURSIVE concat(_)
concat(seqs) == IF seqs = <<>> THEN <<>> ELSE Head(seqs) \o concat(Tail(seqs))

\* Lines 213-242
build_wide_values(m, tf) ==
    <<concat([t \in DOMAIN tf |-> <<tf[t].table, EmptyCell>>]),
      concat([t \in DOMAIN tf |-> <<NMAQUIFER_FIELD, OCOTILLO_TABLEFIELD>>])>>
        \o [i \in 1..max_len(tf) |->
              concat([t \in DOMAIN tf |-> wide_cells(m, tf[t], i)])]

\* Lines 247-262
write_wide(book, values) ==
    update_sheet(
        clear_sheet(ensure_sheet(book, OUTPUT_SHEET_NAME), OUTPUT_SHEET_NAME),
        OUTPUT_SHEET_NAME, 1, values)

-----------------------------------------------------------------------------
(* Names used in the examples                                              *)

Well_ID == <<"W", "e", "l", "l", "_", "I", "D">>
well_id == <<"w", "e", "l", "l", " ", "i", "d">>
WELL_ID == <<"W", "E", "L", "L", "-", "I", "D">>
wellid  == <<"w", "e", "l", "l", "i", "d">>

-----------------------------------------------------------------------------
(* Bounded strings                                                         *)

RECURSIVE SeqsUpTo(_, _)
SeqsUpTo(S, n) ==
    IF n = 0 THEN {<<>>}
    ELSE LET shorter == SeqsUpTo(S, n - 1)
         IN  shorter \cup {Append(s, c) : s \in shorter, c \in S}

-----------------------------------------------------------------------------
(* Scripts that do not run in a specification stay idle                    *)

KeyIdle ==
    /\ mk_pc = "idle"
    /\ mk_x = <<>>
    /\ mk_key = <<>>
    /\ mk_key2 = <<>>

PipeIdle ==
    /\ p_pc = "idle"
    /\ csv_file = [exists |-> FALSE, readable |-> FALSE, columns |-> {},
                   rows |-> <<>>]
    /\ sheets_dict = EmptyDict
    /\ matched_rows = <<>>
    /\ unmatched_rows = <<>>
    /\ stats = EmptyDict
    /\ matrix_cols = <<>>

AmpIdle ==
    /\ a_pc = "idle"
    /\ metrics_file = [exists |-> FALSE, lines |-> <<>>]
    /\ unique_new = <<>>
    /\ existing_set = {}
    /\ current_height = 0
    /\ a_runs = 0

FpIdle ==
    /\ fp_pc = "idle"
    /\ mapped_csv = [exists |-> FALSE, columns |-> <<>>, rows |-> <<>>]
    /\ unmapped_csv = [exists |-> FALSE, columns |-> <<>>, rows |-> <<>>]
    /\ df_m = [columns |-> <<>>, rows |-> <<>>]
    /\ df_u = [columns |-> <<>>, rows |-> <<>>]
    /\ pairs_sorted = <<>>
    /\ df_flat = <<>>
    /\ table_fields = <<>>
    /\ wide_values = <<>>

CleanIdle ==
    /\ ce_pc = "idle"
    /\ ce_msg = <<>>
    /\ ce_out = [raises |-> FALSE, out |-> <<>>]

LineIdle ==
    /\ ln_pc = "idle"
    /\ ln_raw = <<>>
    /\ ln_metrics = <<>>
    /\ ln_counts = <<>>
    /\ ln_blocks = <<>>
    /\ ln_amp = <<>>

DiscIdle ==
    /\ d_pc = "idle"
    /\ in_csv = [fieldnames |-> {}, cells |-> <<>>]
    /\ database = [reachable |-> FALSE, objects |-> <<>>]
    /\ d_values = <<>>
    /\ obj_checks = <<>>
    /\ d_v = 1
    /\ d_o = 1
    /\ d_pairs = <<>>
    /\ executed = <<>>
    /\ printed = <<>>
    /\ out_csv = <<"<not written>">>

SyncIdle ==
    /\ sy_pc = "idle"
    /\ sy_values = <<>>
    /\ sy_first = <<>>

MetricsIdle ==
    /\ tm_pc = "idle"
    /\ tm_file = [exists |-> FALSE, lines |-> <<>>]
    /\ tm_df = <<>>
    /\ tm_wide = [columns |-> <<>>, rows |-> <<>>]

BlocksIdle ==
    /\ b_pc = "idle"
    /\ b_file = [exists |-> FALSE, lines |-> <<>>]
    /\ b_rows = <<>>

UpdateIdle ==
    /\ u_pc = "idle"
    /\ u_runs = 0
    /\ source_values = <<>>
    /\ target_values = <<>>
    /\ data_updates = <<>>

CombineIdle ==
    /\ c_pc = "idle"
    /\ c_runs = 0
    /\ folder = <<>>
    /\ c_files = <<>>
    /\ c_i = 0
    /\ c_line = 0
    /\ writer = FALSE
    /\ out_f = <<>>
    /\ flushed = 0
    /\ total_rows = 0
    /\ opened = {}
    /\ c_first = <<>>

WorldIdle ==
    /\ tabs = <<>>
    /\ out_log = <<>>
    /\ exit_msg = ""

-----------------------------------------------------------------------------
(* nmaquifer_sheets_pipeline.py: inputs                                    *)

Wells == <<"W", "e", "l", "l", "s">>
Sites == <<"S", "i", "t", "e", "s">>

\* "columns" cells of the schema inventory.
Cell_WellID_Lat == <<"W", "e", "l", "l", "_", "I", "D", ",", " ", "L", "a", "t">>
Cell_Lat_Blank == <<"[", "\"", "L", "a", "t", "\"", ",", " ", "\"", "_", "_", "\"", "]">>

InventoryRows ==
    {[table_name |-> Wells, columns |-> Cell_WellID_Lat],
     [table_name |-> Wells, columns |-> Cell_Lat_Blank],
     [table_name |-> Sites, columns |-> Cell_WellID_Lat],
     [table_name |-> lower(Sites), columns |-> <<"L", "a", "t">>],
     [table_name |-> Sites, columns |-> NaN]}

MaxCsvRows == 2

CsvColumns == {"table_name", "columns"}

CsvFiles ==
    {[exists |-> FALSE, readable |-> FALSE, columns |-> {}, rows |-> <<>>],
     [exists |-> TRUE, readable |-> FALSE, columns |-> {}, rows |-> <<>>],
     [exists |-> TRUE, readable |-> TRUE, columns |-> {"table_name"},
      rows |-> <<>>],
     [exists |-> TRUE, readable |-> TRUE, columns |-> {"columns"},
      rows |-> <<>>]}
    \cup {[exists |-> TRUE, readable |-> TRUE, columns |-> CsvColumns,
           rows |-> rows] : rows \in SeqsUpTo(InventoryRows, MaxCsvRows)}

\* Header rows of a mapping tab: complete; with the status column under its
\* other name and no Note; without status and Note; without the field name.
HeaderFull == <<COL_NMAQ, COL_OTAB, COL_OFIELD, COL_EXISTS, COL_NOTE>>
HeaderModel == <<COL_NMAQ, COL_OTAB, COL_OFIELD, COL_EXISTS_MODEL>>
HeaderShort == <<COL_NMAQ, COL_OTAB, COL_OFIELD>>
HeaderNoName == <<COL_OTAB, COL_OFIELD, COL_EXISTS, COL_NOTE>>

MappingHeaders == {HeaderFull, HeaderModel, HeaderShort, HeaderNoName}

\* Data rows of a mapping tab as the API returns them (trailing empty cells
\* left out).  The first two have the same key, wellid.
MappingRows ==
    {<<<<"w", "e", "l", "l", " ", "i", "d">>, <<"s", "i", "t", "e", "s">>, <<"l", "a", "t", "i", "t", "u", "d", "e">>, <<"y", "e", "s">>, <<"n", "1">>>>,
     <<<<"W", "E", "L", "L", "-", "I", "D">>, <<" ", "s", "i", "t", "e", "2">>, <<"l", "a", "t", "2", " ">>, <<" ", "N", "/", "A", " ">>>>,
     <<<<>>, <<"s", "i", "t", "e", "s">>, <<"n", "a", "m", "e">>>>,
     <<<<"L", "a", "t">>, <<"s", "i", "t", "e", "s">>, <<"l", "a", "t", "i", "t", "u", "d", "e">>, <<>>, <<"n", "4">>>>}

MaxSheetRows == 2

SheetValues ==
    {<<>>} \cup {<<h>> \o rows :
                   h \in MappingHeaders,
                   rows \in SeqsUpTo(MappingRows, MaxSheetRows)}

WellsTitle == SHEET_PREFIX \o Wells

\* Output tabs left by an earlier run.
StaleTabs ==
    <<[title |-> MATCHED_SHEET_NAME,
       values |-> << <<<<"o", "l", "d">>, <<"r", "o", "w">>>>, <<<<"x">>>> >>,
       rules |-> <<>>],
      [title |-> MATRIX_SHEET_NAME,
       values |-> << <<<<"L", "e", "g", "e", "n", "d">>>> >>,
       rules |-> MatrixRules]>>

Workbooks ==
    {pre \o mapping :
       pre \in {<<>>, StaleTabs},
       mapping \in {<<>>} \cup
                   {<<[title |-> WellsTitle, values |-> v, rules |-> <<>>]>> :
                       v \in SheetValues}}

PipeInit ==
    /\ CombineIdle
    /\ UpdateIdle
    /\ BlocksIdle
    /\ MetricsIdle
    /\ SyncIdle
    /\ KeyIdle
    /\ AmpIdle
    /\ FpIdle
    /\ CleanIdle
    /\ LineIdle
    /\ DiscIdle
    /\ p_pc = "start"
    /\ csv_file \in CsvFiles
    /\ tabs \in Workbooks
    /\ out_log = <<>>
    /\ exit_msg = ""
    /\ sheets_dict = EmptyDict
    /\ matched_rows = <<>>
    /\ unmatched_rows = <<>>
    /\ stats = EmptyDict
    /\ matrix_cols = <<>>

-----------------------------------------------------------------------------
(* nmaquifer_sheets_pipeline.py: main                                      *)

Book == [tabs |-> tabs, out_log |-> out_log]

\* A check that passes when either column is there.
csv_columns_any(columns) == CsvColumns \cap columns # {}

\* Line 460: both "table_name" and "columns" are columns of the CSV.
csv_columns_ok(columns) == CsvColumns \subseteq columns

\* Lines 449-461: the CSV is there, readable, and has its two columns.
P_LoadCsv ==
    /\ p_pc = "start"
    /\ IF ~csv_file.exists
       THEN p_pc' = "exited" /\ exit_msg' = "CSV not found"
       ELSE IF ~csv_file.readable
       THEN p_pc' = "exited" /\ exit_msg' = "Failed to read CSV"
       ELSE IF ~csv_columns_ok(csv_file.columns)
       THEN /\ p_pc' = "exited"
            /\ exit_msg' = "CSV must contain 'table_name' and 'columns' columns."
       ELSE p_pc' = "csv_loaded" /\ exit_msg' = exit_msg
    /\ UNCHANGED <<notPipeVars, tabs, out_log, csv_file, sheets_dict,
                   matched_rows, unmatched_rows, stats, matrix_cols>>

\* Lines 464-467: read_mapping_sheets_to_dfs; a ValueError of pd.DataFrame
\* is caught nowhere and ends the run with a traceback.
P_ReadSheets ==
    /\ p_pc = "csv_loaded"
    /\ LET read == read_mapping_sheets_to_dfs(tabs, EmptyDict)
       IN  IF read.raised
           THEN /\ p_pc' = "exited"
                /\ exit_msg' = "ValueError"
                /\ sheets_dict' = sheets_dict
           ELSE /\ p_pc' = "sheets_loaded"
                /\ exit_msg' = exit_msg
                /\ sheets_dict' = read.sheets_dict
    /\ UNCHANGED <<notPipeVars, tabs, out_log, csv_file, matched_rows,
                   unmatched_rows, stats, matrix_cols>>

\* Lines 469-556: the matcher.
P_Match ==
    /\ p_pc = "sheets_loaded"
    /\ LET done == match_all(csv_file.rows, sheets_dict,
                             [matched_rows |-> <<>>,
                              unmatched_rows |-> <<>>,
                              stats |-> EmptyDict])
       IN  /\ matched_rows' = done.matched_rows
           /\ unmatched_rows' = done.unmatched_rows
           /\ stats' = done.stats
    /\ p_pc' = "matched"
    /\ UNCHANGED <<notPipeVars, worldVars, csv_file, sheets_dict, matrix_cols>>

\* Lines 558-568: the two CSV files, the Matched and Unmatched tabs, the
\* stats file.
P_WriteReports ==
    /\ p_pc = "matched"
    /\ LET csvs == to_file(to_file(Book, "mapping_report_matched.csv"),
                           "mapping_report_unmatched.csv")
           m == write_df_to_sheet(
                    csvs,
                    df_to_values(MatchedColumns,
                                 MapSeq(matched_values, matched_rows)),
                    MATCHED_SHEET_NAME)
           u == write_df_to_sheet(
                    m,
                    df_to_values(UnmatchedColumns,
                                 MapSeq(unmatched_values, unmatched_rows)),
                    UNMATCHED_SHEET_NAME)
           done == to_file(u, "mapping_report_stats.json")
       IN  /\ tabs' = done.tabs
           /\ out_log' = done.out_log
    /\ p_pc' = "reported"
    /\ UNCHANGED <<notPipeVars, exit_msg, csv_file, sheets_dict, matched_rows,
                   unmatched_rows, stats, matrix_cols>>

\* Lines 573-612: the matrix columns, in sorted table order.
P_BuildMatrix ==
    /\ p_pc = "reported"
    /\ \E ordered_tables \in
           sorted_tables(stats,
                         TablesOf(matched_rows) \cup TablesOf(unmatched_rows)) :
          matrix_cols' =
              build_matrix_cols(ordered_tables, matched_rows, unmatched_rows)
    /\ p_pc' = "matrix_built"
    /\ UNCHANGED <<notPipeVars, worldVars, csv_file, sheets_dict, matched_rows,
                   unmatched_rows, stats>>

\* Lines 644-698: pad the columns and write the Matrix tab, or say that
\* there is nothing to write.
P_WriteMatrix ==
    /\ p_pc = "matrix_built"
    /\ matrix_cols' = pad_matrix(matrix_cols)
    /\ IF matrix_cols # <<>>
       THEN LET done == write_matrix(Book, pad_matrix(matrix_cols),
                                     matched_rows, unmatched_rows)
            IN  tabs' = done.tabs /\ out_log' = done.out_log
       ELSE UNCHANGED <<tabs, out_log>>
    /\ p_pc' = "done"
    /\ UNCHANGED <<notPipeVars, exit_msg, csv_file, sheets_dict, matched_rows,
                   unmatched_rows, stats>>

PipeNext ==
    \/ P_LoadCsv
    \/ P_ReadSheets
    \/ P_Match
    \/ P_WriteReports
    \/ P_BuildMatrix
    \/ P_WriteMatrix

SpecPipe == PipeInit /\ [][PipeNext]_vars

-----------------------------------------------------------------------------
(* Properties of the pipeline                                              *)

AfterMatch == p_pc \in {"matched", "reported", "matrix_built", "done"}

OldTable(i) == normalize_name(csv_file.rows[i].table_name)
OldColumns(i) == split_columns_cell(csv_file.rows[i].columns)

\* How often column c of table t occurs in the schema inventory.
Occurrences(t, c) ==
    Cardinality({ij \in (DOMAIN csv_file.rows) \X (1..8) :
                    /\ OldTable(ij[1]) = t
                    /\ ij[2] \in DOMAIN OldColumns(ij[1])
                    /\ OldColumns(ij[1])[ij[2]] = c})

CountRows(rows, t, c) ==
    Cardinality({k \in DOMAIN rows :
                    rows[k].old_table = t /\ rows[k].old_col = c})

CountTable(rows, t) ==
    Cardinality({k \in DOMAIN rows : rows[k].old_table = t})

\* Some tab NMAquifer_<t> is in the workbook.
HasMappingSheet(t) ==
    \E k \in DOMAIN tabs :
        /\ IsMappingTitle(tabs[k].title)
        /\ normalize_name(
               strip_prefix_case_insensitive(tabs[k].title, SHEET_PREFIX)) = t

\* Some row of t's sheet has a field name with the key of c.
KeyHit(t, c) ==
    /\ t \in DOMAIN sheets_dict
    /\ \E k \in DOMAIN sheets_dict[t].rows :
          make_key(sheets_dict[t].rows[k][COL_NMAQ]) = make_key(c)

RECURSIVE SumLen(_)
SumLen(ss) == IF ss = <<>> THEN 0 ELSE Len(Head(ss)) + SumLen(Tail(ss))

\* C3: every old column of every inventory row gets exactly one result,
\* Matched iff its table has a mapping sheet and some row of the sheet has
\* a field name with the column's key; per table, matched + unmatched is
\* the number of old columns.
C3_OneResultPerColumn ==
    AfterMatch =>
        /\ \A i \in DOMAIN csv_file.rows :
              \A j \in DOMAIN OldColumns(i) :
                 LET t == OldTable(i)
                     c == OldColumns(i)[j]
                 IN  /\ CountRows(matched_rows, t, c)
                          + CountRows(unmatched_rows, t, c)
                        = Occurrences(t, c)
                     /\ IF HasMappingSheet(t) /\ KeyHit(t, c)
                        THEN CountRows(unmatched_rows, t, c) = 0
                        ELSE CountRows(matched_rows, t, c) = 0
        /\ Len(matched_rows) + Len(unmatched_rows)
              = SumLen([i \in DOMAIN csv_file.rows |-> OldColumns(i)])
        /\ \A t \in DOMAIN stats :
              /\ stats[t].matched + stats[t].unmatched = stats[t].csv_cols
              /\ CountTable(matched_rows, t) + CountTable(unmatched_rows, t)
                    = SumLen([i \in DOMAIN csv_file.rows |->
                                IF OldTable(i) = t THEN OldColumns(i)
                                ELSE <<>>])

C3_Witness ==
    /\ AfterMatch
    /\ \E k \in DOMAIN matched_rows : matched_rows[k].old_col = Well_ID
    /\ \E k \in DOMAIN unmatched_rows :
          unmatched_rows[k].reason = NoMatchReason
    /\ \E k \in DOMAIN unmatched_rows :
          unmatched_rows[k].reason = NoSheetReason

\* The rows of t's sheet whose key is that of column c.
RowsWithKey(t, c) ==
    {k \in DOMAIN sheets_dict[t].rows :
        make_key(sheets_dict[t].rows[k][COL_NMAQ]) = make_key(c)}

FirstOf(K) == CHOOSE k \in K : \A m \in K : k <= m
LastOf(K) == CHOOSE k \in K : \A m \in K : m <= k

\* The Matched row that sheet row number k gives for column c of table t.
MatchedFrom(t, c, k) == matched_row(t, c, sheets_dict[t].rows[k])

\* C4 as claimed: on a key collision an old column is matched to the first
\* row of that key in sheet order.
C4_FirstRowWins ==
    AfterMatch =>
        \A n \in DOMAIN matched_rows :
           LET r == matched_rows[n]
           IN  r = MatchedFrom(r.old_table, r.old_col,
                               FirstOf(RowsWithKey(r.old_table, r.old_col)))

\* C4 amended: on a key collision the lookup keeps the last row of that key
\* in sheet order, and an old column with that key is matched to that row.
C4_LastRowWins ==
    AfterMatch =>
        \A n \in DOMAIN matched_rows :
           LET r == matched_rows[n]
           IN  r = MatchedFrom(r.old_table, r.old_col,
                               LastOf(RowsWithKey(r.old_table, r.old_col)))

C4_Witness ==
    /\ AfterMatch
    /\ \E n \in DOMAIN matched_rows :
          LET r == matched_rows[n]
              K == RowsWithKey(r.old_table, r.old_col)
          IN  /\ Cardinality(K) = 2
              /\ MatchedFrom(r.old_table, r.old_col, FirstOf(K))
                    # MatchedFrom(r.old_table, r.old_col, LastOf(K))

\* The text of a cell as it stands in the sheet; an absent cell has none.
CellText(x) == IF isna(x) THEN <<>> ELSE x

\* C5 as claimed: a Matched row carries the Ocotillo table, the Ocotillo
\* field, the existence flag and the note of its mapping row character for
\* character.
C5_CopiedVerbatim ==
    AfterMatch =>
        \A n \in DOMAIN matched_rows :
           LET r == matched_rows[n]
               rec == sheets_dict[r.old_table].rows[
                          LastOf(RowsWithKey(r.old_table, r.old_col))]
           IN  /\ r.o_tab = CellText(rec[COL_OTAB])
               /\ r.o_col = CellText(rec[COL_OFIELD])
               /\ r.field_exists = CellText(rec[COL_EXISTS])
               /\ r.note = CellText(rec[COL_NOTE])

\* A mapping tab with data rows whose header lacks a required column.
RequiredColumns == {COL_NMAQ, COL_OTAB, COL_OFIELD, COL_EXISTS}

LacksRequired(values) ==
    /\ values # <<>>
    /\ ~(RequiredColumns \subseteq Range(Head(values)))

SomeSheetLacksRequired ==
    \E k \in DOMAIN tabs :
        IsMappingTitle(tabs[k].title) /\ LacksRequired(tabs[k].values)

CsvLacksColumn ==
    csv_file.exists /\ csv_file.readable
        /\ ~(CsvColumns \subseteq csv_file.columns)

ReportsProduced == p_pc \in {"reported", "matrix_built", "done"}

MatrixBuilt == p_pc \in {"matrix_built", "done"}

RowsOfTable(rows, t) == SelectSeq(rows, LAMBDA r : r.old_table = t)

Pending == <<"p", "e", "n", "d", "i", "n", "g">>

\* C10 as claimed: a matched field shows its existence flag, or "pending"
\* when the flag is empty; an unmatched field shows "pending".
C10_PendingWhenEmpty ==
    MatrixBuilt =>
        \A i \in DOMAIN matrix_cols :
           LET m == RowsOfTable(matched_rows, matrix_cols[i].table)
               u == RowsOfTable(unmatched_rows, matrix_cols[i].table)
           IN  /\ \A k \in DOMAIN m :
                     matrix_cols[i].rows[k] =
                         m[k].old_col \o <<" ", "(">>
                             \o (IF m[k].field_exists = <<>> THEN Pending
                                 ELSE m[k].field_exists)
                             \o <<")">>
               /\ \A k \in DOMAIN u :
                     matrix_cols[i].rows[Len(m) + k] =
                         u[k].old_col \o <<" ", "(">> \o Pending \o <<")">>

\* C10 amended: a matched field shows its existence flag as it is, so "()"
\* when the flag is empty; an unmatched field shows "pending".
C10_StatusAsIs ==
    MatrixBuilt =>
        \A i \in DOMAIN matrix_cols :
           LET m == RowsOfTable(matched_rows, matrix_cols[i].table)
               u == RowsOfTable(unmatched_rows, matrix_cols[i].table)
           IN  /\ Len(matrix_cols[i].rows) >= Len(m) + Len(u)
               /\ \A k \in DOMAIN m :
                     matrix_cols[i].rows[k] =
                         m[k].old_col \o <<" ", "(">> \o m[k].field_exists
                             \o <<")">>
               /\ \A k \in DOMAIN u :
                     matrix_cols[i].rows[Len(m) + k] =
                         u[k].old_col \o <<" ", "(">> \o Pending \o <<")">>

C10_Witness ==
    /\ MatrixBuilt
    /\ \E i \in DOMAIN matrix_cols :
          /\ <<"L", "a", "t", " ", "(", ")">> \in Range(matrix_cols[i].rows)
          /\ <<"_", "_", " ", "(", "p", "e", "n", "d", "i", "n", "g", ")">> \in Range(matrix_cols[i].rows)

\* C11: in the matrix, every table that has a mapping sheet comes before
\* every table that has none, and inside each of the two groups the tables
\* are in alphabetical order (of their lowercased names).
C11_SheetTablesFirstAlphabetical ==
    MatrixBuilt =>
        \A i, j \in DOMAIN matrix_cols :
           i < j =>
              LET a == matrix_cols[i].table
                  b == matrix_cols[j].table
              IN  /\ HasMappingSheet(b) => HasMappingSheet(a)
                  /\ HasMappingSheet(a) = HasMappingSheet(b)
                        => ~str_lt(lower(b), lower(a))

\* A table with a sheet stands before a table without one that precedes it
\* in the alphabet.
C11_Witness ==
    /\ MatrixBuilt
    /\ Len(matrix_cols) = 2
    /\ HasMappingSheet(matrix_cols[1].table)
    /\ ~HasMappingSheet(matrix_cols[2].table)
    /\ str_lt(lower(matrix_cols[2].table), lower(matrix_cols[1].table))

MatrixPadded == p_pc = "done"

\* The number of cells table t has of its own: its matched and its
\* unmatched fields.
OwnCells(t) == CountTable(matched_rows, t) + CountTable(unmatched_rows, t)

IsLongest(n) ==
    /\ \E i \in DOMAIN matrix_cols : OwnCells(matrix_cols[i].table) = n
    /\ \A i \in DOMAIN matrix_cols : OwnCells(matrix_cols[i].table) <= n

\* C12: after padding every matrix column has as many cells as the longest
\* table has fields; a table's own cells come first and the cells added
\* after them are empty strings.
C12_Rectangular ==
    MatrixPadded =>
        \A i \in DOMAIN matrix_cols :
           LET rows == matrix_cols[i].rows
               own == OwnCells(matrix_cols[i].table)
           IN  /\ IsLongest(Len(rows))
               /\ \A k \in DOMAIN rows :
                     IF k <= own THEN rows[k] # EmptyCell
                     ELSE rows[k] = EmptyCell

\* Two tables with field lists of different lengths, the shorter padded.
C12_Witness ==
    /\ MatrixPadded
    /\ \E i, j \in DOMAIN matrix_cols :
          /\ OwnCells(matrix_cols[i].table) < OwnCells(matrix_cols[j].table)
          /\ matrix_cols[i].rows[Len(matrix_cols[i].rows)] = EmptyCell

\* The orders sorted() can give the tables of this run: the set all_tables
\* is iterated in the order of its string hashes, which differs from one
\* interpreter process to the next, and sorted() keeps that order for
\* tables with equal keys.
PossibleTableOrders ==
    sorted_tables(stats, TablesOf(matched_rows) \cup TablesOf(unmatched_rows))

\* C13: two runs over the same schema inventory and the same mapping rows
\* produce the same matrix, with the same column order: the columns this
\* run built are the columns of every order a run on this input can take.
C13_SameMatrixEveryRun ==
    MatrixBuilt =>
        \A ordered \in PossibleTableOrders :
           ordered = [i \in DOMAIN matrix_cols |-> matrix_cols[i].table]

\* The scenario: the inventory has the one table Wells with the columns
\* Well_ID and Lat, and the mapping tab of Wells has the one row
\* "well id" -> sites.latitude, "yes"; the matcher has run.
WellIdRow(row) ==
    /\ Len(row) >= 4
    /\ row[1] = <<"w", "e", "l", "l", " ", "i", "d">>
    /\ row[2] = <<"s", "i", "t", "e", "s">>
    /\ row[3] = <<"l", "a", "t", "i", "t", "u", "d", "e">>
    /\ row[4] = <<"y", "e", "s">>

ScenarioMatched ==
    /\ p_pc \in {"matched", "reported", "matrix_built", "done"}
    /\ csv_file.rows = <<[table_name |-> Wells, columns |-> Cell_WellID_Lat]>>
    /\ \E i \in DOMAIN tabs :
          /\ tabs[i].title = WellsTitle
          /\ Len(tabs[i].values) = 2
          /\ tabs[i].values[1] = HeaderFull
          /\ WellIdRow(tabs[i].values[2])

\* One Matched result of old_col to sites.latitude with the status "yes".
OneMatched(old_col) ==
    /\ Len(matched_rows) = 1
    /\ matched_rows[1].old_table = Wells
    /\ matched_rows[1].old_col = old_col
    /\ matched_rows[1].o_tab = <<"s", "i", "t", "e", "s">>
    /\ matched_rows[1].o_col = <<"l", "a", "t", "i", "t", "u", "d", "e">>
    /\ matched_rows[1].field_exists = <<"y", "e", "s">>

\* One Unmatched result of old_col with the reason no matching field name.
OneUnmatched(old_col) ==
    unmatched_rows = <<unmatched_row(Wells, old_col, NoMatchReason)>>

\* C19 as stated: in the scenario the matcher yields one Matched result for
\* Lat (to sites.latitude, "yes") and one Unmatched result for Well_ID with
\* the reason no matching field name.
C19_LatMatchedWellIdUnmatched ==
    ScenarioMatched =>
        /\ OneMatched(<<"L", "a", "t">>)
        /\ OneUnmatched(<<"W", "e", "l", "l", "_", "I", "D">>)

\* C19: in the scenario the matcher yields one Matched result for Well_ID,
\* whose key wellid is the key of the row's field name "well id" (to
\* sites.latitude, "yes"), and one Unmatched result for Lat with the reason
\* no matching field name.
C19_WellIdMatchedLatUnmatched ==
    ScenarioMatched =>
        /\ OneMatched(<<"W", "e", "l", "l", "_", "I", "D">>)
        /\ OneUnmatched(<<"L", "a", "t">>)

C19_Witness ==
    /\ ScenarioMatched
    /\ p_pc = "matched"
    /\ Len(matched_rows) = 1
    /\ Len(unmatched_rows) = 1

-----------------------------------------------------------------------------
(* transfer_to_amp_review.py: inputs                                       *)

MaxLines == 3

MaxRuns == 2

MetricsLines ==
    {<<"P", "o", "i", "n", "t", "I", "D", "|", "T", "a", "b", "l", "e", "|",
        "F", "i", "e", "l", "d", "|", "E", "r", "r", "o", "r">>,
     <<"P", "1", "|", "W", "e", "l", "l", "s", "|", "L", "a", "t", "|", "b",
         "a", "d">>,
     <<"P", "1", "|", "W", "e", "l", "l", "s", "|", "L", "a", "t", "|", "b",
         "a", "d", "|">>,
     <<>>,
     <<"|", "|", "|">>,
     <<"P", "2", "|", "S", "i", "t", "e", "s", "|", "|", "r", "o", "w", ".",
         "i", "d", "=", "7", ",", " ", "o", "o", "p", "s">>}

AmpFiles ==
    {[exists |-> FALSE, lines |-> <<>>]}
        \cup {[exists |-> TRUE, lines |-> l] :
                 l \in SeqsUpTo(MetricsLines, MaxLines)}

AmpRow == <<<<"W", "e", "l", "l", "s", ".", "L", "a", "t">>, <<"P",
    "1">>, <<"b", "a", "d">>>>

AmpTab(values) == [title |-> SHEET_NAME, values |-> values, rules |-> <<>>]

\* The workbook before the first run: without the tab, with the tab empty,
\* with the header alone, with header and a row, with a row and no header.
AmpWorkbooks ==
    {<<>>, <<AmpTab(<<>>)>>, <<AmpTab(<<AMP_HEADER>>)>>,
     <<AmpTab(<<AMP_HEADER, AmpRow>>)>>, <<AmpTab(<<AmpRow>>)>>}

AmpInit ==
    /\ CombineIdle
    /\ UpdateIdle
    /\ BlocksIdle
    /\ MetricsIdle
    /\ SyncIdle
    /\ KeyIdle
    /\ PipeIdle
    /\ FpIdle
    /\ CleanIdle
    /\ LineIdle
    /\ DiscIdle
    /\ a_pc = "start"
    /\ metrics_file \in AmpFiles
    /\ unique_new = <<>>
    /\ existing_set = {}
    /\ current_height = 0
    /\ a_runs = 1
    /\ tabs \in AmpWorkbooks
    /\ out_log = <<>>
    /\ exit_msg = ""

-----------------------------------------------------------------------------
(* transfer_to_amp_review.py: main                                         *)

\* Line 140: ensure_tab(service, SPREADSHEET_ID, SHEET_NAME)
A_EnsureTab ==
    /\ a_pc = "start"
    /\ LET book == ensure_tab(Book, SHEET_NAME)
       IN  /\ tabs' = book.tabs
           /\ out_log' = book.out_log
    /\ a_pc' = "tab_ensured"
    /\ UNCHANGED <<notAmpVars, exit_msg, metrics_file, unique_new,
                   existing_set, current_height, a_runs>>

\* Lines 143-151: parse_amp_rows, which exits when the file is not there,
\* then the first row of every key of the batch.
A_Parse ==
    /\ a_pc = "tab_ensured"
    /\ IF ~metrics_file.exists
       THEN /\ a_pc' = "exited"
            /\ exit_msg' = "File not found"
            /\ UNCHANGED unique_new
       ELSE LET new_rows == parse_amp_rows(metrics_file.lines)
            IN  IF new_rows.raises
                THEN /\ a_pc' = "exited"
                     /\ exit_msg' = "re.error"
                     /\ UNCHANGED unique_new
                ELSE /\ a_pc' = "parsed"
                     /\ unique_new' = dedup_batch(new_rows.rows, {})
                     /\ UNCHANGED exit_msg
    /\ UNCHANGED <<notAmpVars, tabs, out_log, metrics_file, existing_set,
                   current_height, a_runs>>

\* Line 154: load_existing_set(service, SPREADSHEET_ID, SHEET_NAME)
A_LoadExisting ==
    /\ a_pc = "parsed"
    /\ LET loaded == load_existing_set(
                         get_values(tabs[TabIndex(tabs, SHEET_NAME)].values,
                                    A_C_COLUMNS))
       IN  /\ existing_set' = loaded.existing
           /\ current_height' = loaded.height
    /\ a_pc' = "loaded"
    /\ UNCHANGED <<notAmpVars, worldVars, metrics_file, unique_new, a_runs>>

IsNewRow(r) == row_key(r) \notin existing_set

\* Lines 157-178: the rows not yet in the sheet are appended, after the
\* header row if the sheet has no row, or one row that is no data row.
A_Append ==
    /\ a_pc = "loaded"
    /\ LET to_append == SelectSeq(unique_new, IsNewRow)
           need_header ==
               \/ current_height = 0
               \/ current_height = 1 /\ existing_set = {}
           values == (IF need_header THEN <<AMP_HEADER>> ELSE <<>>)
                         \o to_append
           book == append_sheet(Book, SHEET_NAME, values)
       IN  IF to_append = <<>>
           THEN UNCHANGED <<tabs, out_log>>
           ELSE /\ tabs' = book.tabs
                /\ out_log' = book.out_log
    /\ a_pc' = "done"
    /\ UNCHANGED <<notAmpVars, exit_msg, metrics_file, unique_new,
                   existing_set, current_height, a_runs>>

\* The script is run again, on the sheet as the last run left it.
A_NextRun ==
    /\ a_pc \in {"done", "exited"}
    /\ a_runs < MaxRuns
    /\ a_runs' = a_runs + 1
    /\ metrics_file' \in AmpFiles
    /\ a_pc' = "start"
    /\ unique_new' = <<>>
    /\ existing_set' = {}
    /\ current_height' = 0
    /\ out_log' = <<>>
    /\ exit_msg' = ""
    /\ UNCHANGED <<notAmpVars, tabs>>

AmpNext ==
    \/ A_EnsureTab
    \/ A_Parse
    \/ A_LoadExisting
    \/ A_Append
    \/ A_NextRun

SpecAmp == AmpInit /\ [][AmpNext]_vars

\* The script is run again on the same transfer log.
A_RunAgain ==
    /\ a_pc \in {"done", "exited"}
    /\ a_runs < MaxRuns
    /\ a_runs' = a_runs + 1
    /\ a_pc' = "start"
    /\ unique_new' = <<>>
    /\ existing_set' = {}
    /\ current_height' = 0
    /\ out_log' = <<>>
    /\ exit_msg' = ""
    /\ UNCHANGED <<notAmpVars, tabs, metrics_file>>

AmpAgainNext ==
    \/ A_EnsureTab
    \/ A_Parse
    \/ A_LoadExisting
    \/ A_Append
    \/ A_RunAgain

SpecAmpAgain == AmpInit /\ [][AmpAgainNext]_vars

\* The conditional-format rules of the Matrix tab.
RulesOfMatrix == tabs[TabIndex(tabs, MATRIX_SHEET_NAME)].rules

MatrixFormatted ==
    /\ p_pc = "done"
    /\ \E i \in DOMAIN out_log : out_log[i].op = "format"

\* C27: a run of the pipeline with conditional formatting enabled leaves
\* the Matrix tab with the four rules, also when the tab had the four
\* rules of an earlier run: the rules do not grow with the runs.
C27_RulesDoNotGrow == MatrixFormatted => RulesOfMatrix = MatrixRules

\* C30: no Matched result is for an old column whose key is empty (a name
\* without an ASCII letter or digit), and so none has for record a row of
\* the mapping sheet whose NMAquifer Field Name is blank or missing; every
\* such old column of the inventory is in the Unmatched rows.
C30_BlankKeyNeverMatched ==
    AfterMatch =>
        /\ \A i \in DOMAIN matched_rows :
              make_key(matched_rows[i].old_col) # <<>>
        /\ \A i \in DOMAIN csv_file.rows :
              \A j \in DOMAIN OldColumns(i) :
                 make_key(OldColumns(i)[j]) = <<>> =>
                     CountRows(unmatched_rows, OldTable(i),
                               OldColumns(i)[j]) >= 1

-----------------------------------------------------------------------------
(* Properties of the scripts' aborts                                       *)

\* C7 as claimed: in every script, when a run aborts for a missing input
\* file or column, no output action has happened in that run: no tab
\* created, no range cleared, written or appended, no file written.
C7_NoOutputBeforeAbort ==
    /\ a_pc = "exited" /\ exit_msg = "File not found" => out_log = <<>>
    /\ p_pc = "exited" /\ exit_msg # "ValueError" => out_log = <<>>

-----------------------------------------------------------------------------
(* Sheet sync on its own: write_df_to_sheet applied twice                  *)

MaxGridRows == 2

GridWidths == {1, 2, A_Z_COLUMNS + 1}

\* Rows of a frame of the given width: every cell filled, or the first
\* cell alone.
GridRows(width) ==
    {[j \in 1..width |-> <<"a">>],
     [j \in 1..width |-> IF j = 1 THEN <<"b">> ELSE EmptyCell]}

\* df_to_values of the frames: nothing for an empty frame, else the header
\* and the rows.
SyncGrids ==
    {<<>>}
    \cup UNION {{<<[j \in 1..width |-> <<"h">>]>> \o rows :
                   rows \in SeqsUpTo(GridRows(width), MaxGridRows) \ {<<>>}} :
                width \in GridWidths}

OtherTab ==
    [title |-> UNMATCHED_SHEET_NAME, values |-> << <<<<"u">>>> >>,
     rules |-> <<>>]

\* The tab as earlier runs left it: empty, a grid that is taller than any
\* new one, a grid with a cell right of column Z.
EarlierValues ==
    {<<>>,
     << <<<<"o">>, <<"o">>, <<"o">>>>, <<<<"o">>>>, <<<<"o">>>>,
        <<<<"o">>, <<"o">>>> >>,
     << [j \in 1..(A_Z_COLUMNS + 2) |-> IF j > A_Z_COLUMNS THEN <<"o">>
                                        ELSE EmptyCell] >>}

SyncBooks ==
    {<<>>, <<OtherTab>>}
    \cup {pre \o <<[title |-> MATCHED_SHEET_NAME, values |-> v,
                    rules |-> <<>>]>> :
            pre \in {<<>>, <<OtherTab>>}, v \in EarlierValues}

SyncInit ==
    /\ CombineIdle
    /\ UpdateIdle
    /\ BlocksIdle
    /\ MetricsIdle
    /\ KeyIdle
    /\ PipeIdle
    /\ AmpIdle
    /\ FpIdle
    /\ CleanIdle
    /\ LineIdle
    /\ DiscIdle
    /\ sy_pc = "start"
    /\ sy_values \in SyncGrids
    /\ sy_first = <<>>
    /\ tabs \in SyncBooks
    /\ out_log = <<>>
    /\ exit_msg = ""

\* write_df_to_sheet(service, df, MATCHED_SHEET_NAME), the first time.
S_WriteOnce ==
    /\ sy_pc = "start"
    /\ LET done == write_df_to_sheet(Book, sy_values, MATCHED_SHEET_NAME)
       IN  /\ tabs' = done.tabs
           /\ out_log' = done.out_log
           /\ sy_first' = done.tabs
    /\ sy_pc' = "once"
    /\ UNCHANGED <<notSyncVars, exit_msg, sy_values>>

\* The same call with the same frame again.
S_WriteAgain ==
    /\ sy_pc = "once"
    /\ LET done == write_df_to_sheet(Book, sy_values, MATCHED_SHEET_NAME)
       IN  /\ tabs' = done.tabs
           /\ out_log' = done.out_log
    /\ sy_pc' = "twice"
    /\ UNCHANGED <<notSyncVars, exit_msg, sy_values, sy_first>>

SyncNext ==
    \/ S_WriteOnce
    \/ S_WriteAgain

SpecSync == SyncInit /\ [][SyncNext]_vars

-----------------------------------------------------------------------------
(* Properties of sheet sync                                                *)

NoTitleTwice ==
    \A i, j \in DOMAIN tabs : tabs[i].title = tabs[j].title => i = j

AddSheets(log) == {k \in DOMAIN log : log[k].op = "addSheet"}

SyncedValues == tabs[TabIndex(tabs, MATCHED_SHEET_NAME)].values

\* C21: ensure-tab, clear-range, write-grid applied twice with the same
\* grid leaves the tabs (titles, cell values) as the first application left
\* them; addSheet is issued only when no tab has the title, so that no title
\* is ever held by two tabs.
C21_SheetSyncIdempotent ==
    /\ [](sy_pc = "twice" => tabs = sy_first)
    /\ []NoTitleTwice
    /\ [][Cardinality(AddSheets(out_log')) =
            Cardinality(AddSheets(out_log))
            + (IF HasTab(tabs, MATCHED_SHEET_NAME) THEN 0 ELSE 1)]_vars

C21_Witness ==
    /\ sy_pc = "twice"
    /\ Len(tabs) = 2
    /\ Cardinality(AddSheets(out_log)) = 1
    /\ Len(SyncedValues) = 3

\* C26: after the clear and the write the cell values of the tab are the
\* cells of the new grid and nothing else.
C26_OnlyNewGridLeft ==
    sy_pc \in {"once", "twice"} => SyncedValues = trim_grid(sy_values)

-----------------------------------------------------------------------------
(* transfermetrics.py: pure functions                                      *)

TAB_NAME ==
    <<"T", "a", "b", "l", "e", "F", "i", "e", "l", "d", "_", "I", "s", "s",
      "u", "e", "s">>

POINT_ID == <<"P", "o", "i", "n", "t", "I", "D">>
TABLE == <<"T", "a", "b", "l", "e">>
FIELD == <<"F", "i", "e", "l", "d">>
ERROR == <<"E", "r", "r", "o", "r">>

REQUIRED_HEADERS == <<POINT_ID, TABLE, FIELD, ERROR>>

\* The last column of the range A:ZZ.
A_ZZ_COLUMNS == 702

UNKNOWN == <<"(", "u", "n", "k", "n", "o", "w", "n", ")">>

\* Lines 68-74: the index of the first line that is not blank, 0 if none.
RECURSIVE first_nonblank(_, _)
first_nonblank(lines, i) ==
    IF i > Len(lines) THEN 0
    ELSE IF strip(lines[i]) # <<>> THEN i
    ELSE first_nonblank(lines, i + 1)

\* Line 72.
header_of(ln) == MapSeq(strip, split_max(ln, "|", 3))

\* Lines 79-82.
missing_headers(header) ==
    {k \in DOMAIN REQUIRED_HEADERS :
        lower(REQUIRED_HEADERS[k]) \notin {lower(header[i]) : i \in DOMAIN header}}

\* Lines 94 and 99-108: dict(zip(header, parts)), the columns renamed to the
\* required headers and kept in their order.  The part of a required header
\* is the one at the place of the header that is equal to it without regard
\* to case.
row_of_header(header, parts) ==
    [k \in DOMAIN REQUIRED_HEADERS |->
        parts[CHOOSE i \in DOMAIN header :
                 lower(header[i]) = lower(REQUIRED_HEADERS[k])]]

RECURSIVE data_rows(_, _)
\* Lines 85-95.
data_rows(header, lines) ==
    IF lines = <<>> THEN <<>>
    ELSE (IF strip(Head(lines)) = <<>> THEN <<>>
          ELSE <<row_of_header(header, robust_read_parts(Head(lines)))>>)
         \o data_rows(header, Tail(lines))

\* Line 118: the label of a row, [PointID, Table, Field, Error].
label_of(r) == IF r[3] # <<>> THEN r[2] \o <<".">> \o r[3] ELSE r[2]

\* Lines 121-123: the PointIDs of a label, in the order of the rows.
RECURSIVE ids_of(_, _)
ids_of(df, label) ==
    IF df = <<>> THEN <<>>
    ELSE (IF label_of(Head(df)) = label THEN <<Head(df)[1]>> ELSE <<>>)
         \o ids_of(Tail(df), label)

\* Line 132.
RECURSIVE ids_clean(_)
ids_clean(ids) ==
    IF ids = <<>> THEN <<>>
    ELSE (IF Head(ids) # <<>> THEN <<Head(ids)>> ELSE <<>>)
         \o ids_clean(Tail(ids))

\* Line 126: the labels in sorted order.
sorted_labels(df) == sorted_by({label_of(df[i]) : i \in DOMAIN df}, str_lt)

\* Line 133.
col_vals(df, label) ==
    <<IF label = <<>> THEN UNKNOWN ELSE label,
      int_str(Len(ids_clean(ids_of(df, label))))>>
    \o ids_clean(ids_of(df, label))

\* Line 134: the key of the column of a label.
column_key(label) == IF label = <<>> THEN UNKNOWN ELSE label

RECURSIVE column_keys(_)
\* The keys of the dict `columns` in insertion order: a key set again keeps
\* its first place.
column_keys(labels) ==
    IF labels = <<>> THEN <<>>
    ELSE LET before == column_keys(SubSeq(labels, 1, Len(labels) - 1))
             key == column_key(labels[Len(labels)])
         IN  IF key \in Range(before) THEN before ELSE Append(before, key)

\* Lines 116-142: the frame of the wide layout, [columns, rows].
build_wide_layout(df) ==
    LET labels == sorted_labels(df)
        keys == column_keys(labels)
        \* the value a key was set to last
        vals(key) ==
            col_vals(df, labels[CHOOSE i \in DOMAIN labels :
                                   /\ column_key(labels[i]) = key
                                   /\ \A j \in DOMAIN labels :
                                         column_key(labels[j]) = key => j <= i])
        lens == {Len(col_vals(df, labels[i])) : i \in DOMAIN labels}
        longest == CHOOSE n \in lens \cup {0} : \A m \in lens : m <= n
    IN  [columns |-> keys,
         rows |-> [r \in 1..longest |->
                     [c \in DOMAIN keys |->
                        IF r <= Len(vals(keys[c])) THEN vals(keys[c])[r]
                        ELSE <<>>]]]

\* Lines 144-145.
dataframe_to_2d_list(frame) == <<frame.columns>> \o frame.rows

\* Lines 42-46.
clear_range(book, tab_name, ncols) ==
    [tabs |-> [book.tabs EXCEPT ![TabIndex(book.tabs, tab_name)].values =
                  clear_values(@, ncols)],
     out_log |-> Append(book.out_log, OutputAction("clear", tab_name))]

-----------------------------------------------------------------------------
(* transfermetrics.py: inputs and main                                     *)

MaxLogLines == 3

\* Lines of a transfer log: the header, the header in another order and
\* case, a blank line, and data lines: two of one Table.Field, one without
\* PointID, one without Field, one with neither Table nor Field, one whose
\* Table is the text "(unknown)".
LogLines ==
    {<<"P", "o", "i", "n", "t", "I", "D", "|", "T", "a", "b", "l", "e", "|",
       "F", "i", "e", "l", "d", "|", "E", "r", "r", "o", "r">>,
     <<"t", "a", "b", "l", "e", "|", "p", "o", "i", "n", "t", "i", "d", "|",
       "f", "i", "e", "l", "d", "|", "e", "r", "r", "o", "r">>,
     <<" ">>,
     <<"P", "1", "|", "T", "|", "F", "|", "e">>,
     <<"P", "2", "|", "T", "|", "F", "|", "e", "|", "e">>,
     <<"|", "T", "|", "F", "|", "e">>,
     <<"P", "3", "|", "T", "|", "|", "e">>,
     <<"P", "4", "|", "|", "|", "e">>,
     <<"P", "5", "|", "(", "u", "n", "k", "n", "o", "w", "n", ")">>}

LogFiles ==
    {[exists |-> FALSE, lines |-> <<>>]}
    \cup {[exists |-> TRUE, lines |-> lines] :
            lines \in SeqsUpTo(LogLines, MaxLogLines)}

\* The tab as an earlier run left it.
IssuesBooks ==
    {<<>>,
     <<[title |-> TAB_NAME,
        values |-> << <<<<"o">>>>, <<<<"o">>>>, <<<<"o">>>>, <<<<"o">>>>,
                      <<<<"o">>>> >>,
        rules |-> <<>>]>>}

MetricsInit ==
    /\ CombineIdle
    /\ UpdateIdle
    /\ BlocksIdle
    /\ KeyIdle
    /\ PipeIdle
    /\ AmpIdle
    /\ FpIdle
    /\ CleanIdle
    /\ LineIdle
    /\ DiscIdle
    /\ SyncIdle
    /\ tm_pc = "start"
    /\ tm_file \in LogFiles
    /\ tm_df = <<>>
    /\ tm_wide = [columns |-> <<>>, rows |-> <<>>]
    /\ tabs \in IssuesBooks
    /\ out_log = <<>>
    /\ exit_msg = ""

\* Lines 148-152 and 56-114: the file is read into the frame.  A frame
\* without rows has no columns, and selecting the required ones raises
\* KeyError.
M_Read ==
    /\ tm_pc = "start"
    /\ LET lines == tm_file.lines
           h == first_nonblank(lines, 1)
           header == header_of(lines[h])
           rows == data_rows(header, SubSeq(lines, h + 1, Len(lines)))
           Exit(msg) ==
               /\ tm_pc' = "exited"
               /\ exit_msg' = msg
               /\ tm_df' = tm_df
       IN  IF ~tm_file.exists THEN Exit("File not found")
           ELSE IF lines = <<>> THEN Exit("CSV appears empty.")
           ELSE IF h = 0 THEN Exit("No header found.")
           ELSE IF missing_headers(header) # {}
           THEN Exit("Missing required header")
           ELSE IF rows = <<>> THEN Exit("KeyError")
           ELSE /\ tm_df' = rows
                /\ tm_pc' = "read"
                /\ exit_msg' = exit_msg
    /\ UNCHANGED <<notMetricsVars, tabs, out_log, tm_file, tm_wide>>

\* Line 153.
M_BuildWide ==
    /\ tm_pc = "read"
    /\ tm_wide' = build_wide_layout(tm_df)
    /\ tm_pc' = "built"
    /\ UNCHANGED <<notMetricsVars, worldVars, tm_file, tm_df>>

\* Lines 155-162: the tab is ensured, A:ZZ cleared, the grid written at A1.
M_Write ==
    /\ tm_pc = "built"
    /\ LET cleared == clear_range(ensure_tab(Book, TAB_NAME), TAB_NAME,
                                  A_ZZ_COLUMNS)
           done == update_sheet(cleared, TAB_NAME, 1,
                                dataframe_to_2d_list(tm_wide))
       IN  /\ tabs' = done.tabs
           /\ out_log' = done.out_log
    /\ tm_pc' = "done"
    /\ UNCHANGED <<notMetricsVars, exit_msg, tm_file, tm_df, tm_wide>>

MetricsNext ==
    \/ M_Read
    \/ M_BuildWide
    \/ M_Write

SpecMetrics == MetricsInit /\ [][MetricsNext]_vars

-----------------------------------------------------------------------------
(* Properties of the TableField_Issues grid                                *)

IssuesGrid == tabs[TabIndex(tabs, TAB_NAME)].values

\* The PointIDs that are not empty of the rows with the label.
PointIdsOf(label) == ids_clean(ids_of(tm_df, label))

\* The column of the grid from row `first` on, without the padding.
ColumnFrom(g, j, first) ==
    trim_row([i \in 1..(Len(g) - first + 1) |-> Cell(g, i + first - 1, j)])

\* C22: in the grid written at A1 of TableField_Issues every column holds
\* the label of a Table.Field in row 1, the count of its PointIDs in row 2
\* and its PointIDs from row 3 on.
C22_LabelCountPointIds ==
    tm_pc = "done" =>
        \A j \in DOMAIN IssuesGrid[1] :
           \E i \in DOMAIN tm_df :
              LET label == label_of(tm_df[i])
              IN  /\ Cell(IssuesGrid, 1, j) = column_key(label)
                  /\ Cell(IssuesGrid, 2, j) = int_str(Len(PointIdsOf(label)))
                  /\ ColumnFrom(IssuesGrid, j, 3) = PointIdsOf(label)

-----------------------------------------------------------------------------
(* transfermetrics_3.py: pure functions                                    *)

CHECKED_SHEET_NAME ==
    <<"F", "i", "e", "l", "d", "P", "a", "i", "r", "s", "_", "C", "h", "e",
      "c", "k", "e", "d">>

SUMMARY_KEYS ==
    <<<<"m", "o", "d", "e", "l">>,
      <<"i", "n", "p", "u", "t", "_", "c", "o", "u", "n", "t">>,
      <<"c", "l", "e", "a", "n", "e", "d", "_", "c", "o", "u", "n", "t">>,
      <<"t", "r", "a", "n", "s", "f", "e", "r", "r", "e", "d">>,
      <<"i", "s", "s", "u", "e", "_", "p", "e", "r", "c", "e", "n", "t", "a",
        "g", "e">>>>

POINT_HEADER_LOWER ==
    <<"p", "o", "i", "n", "t", "i", "d", "|", "t", "a", "b", "l", "e", "|",
      "f", "i", "e", "l", "d", "|", "e", "r", "r", "o", "r">>

\* Lines 45-47.
is_summary_header(line) ==
    LET parts == MapSeq(lower, MapSeq(strip, split(line, "|")))
    IN  SubSeq(parts, 1, IF Len(parts) < 5 THEN Len(parts) ELSE 5)
            = SUMMARY_KEYS

AllDigits(s) == s # <<>> /\ \A i \in DOMAIN s : s[i] \in Digits

\* Line 55: re.fullmatch(r"-?\d+(\.\d+)?", x)
is_num(x) ==
    LET u == IF x # <<>> /\ Head(x) = "-" THEN Tail(x) ELSE x
        dot == IndexOf(u, ".")
    IN  IF dot = 0 THEN AllDigits(u)
        ELSE /\ AllDigits(SubSeq(u, 1, dot - 1))
             /\ AllDigits(SubSeq(u, dot + 1, Len(u)))

\* Lines 49-58.
looks_like_values_line(line) ==
    LET parts == MapSeq(strip, split_max(line, "|", 4))
    IN  /\ Len(parts) >= 5
        /\ is_num(parts[2])
        /\ is_num(parts[3])
        /\ is_num(parts[4])
        /\ \/ is_num(parts[5])
           \/ (parts[5] # <<>> /\ parts[5][Len(parts[5])] = "%")

\* Lines 60-64.
split5(line) ==
    LET parts == MapSeq(strip, split_max(line, "|", 4))
    IN  SubSeq(parts \o [k \in 1..(5 - Len(parts)) |-> <<>>], 1, 5)

\* Lines 113-120 and 158-165.
summary_row(line, table_val) ==
    LET parts == split5(line)
    IN  [model |-> parts[1],
         Table |-> table_val,
         input_count |-> parts[2],
         cleaned_count |-> parts[3],
         transferred |-> parts[4],
         issue_percentage |-> parts[5]]

RECURSIVE skip_blank(_, _)
\* Lines 85-86, 91-92, 130-131: the first index from i on of a line that is
\* not blank, Len(lines) + 1 if there is none.
skip_blank(lines, i) ==
    IF i <= Len(lines) /\ strip(lines[i]) = <<>>
    THEN skip_blank(lines, i + 1) ELSE i

RECURSIVE skip_nonblank(_, _)
\* Lines 128-129.
skip_nonblank(lines, i) ==
    IF i <= Len(lines) /\ strip(lines[i]) # <<>>
    THEN skip_nonblank(lines, i + 1) ELSE i

RECURSIVE first_block_table(_, _)
\* Lines 97-111: the Table of the first data row from index k on.
first_block_table(lines, k) ==
    IF k > Len(lines) THEN <<>>
    ELSE LET s == strip(lines[k])
         IN  IF s = <<>> THEN first_block_table(lines, k + 1)
             ELSE IF startswith(lower(s), POINT_HEADER_LOWER)
             THEN first_block_table(lines, k + 1)
             ELSE IF lower(split_point_row(s)[1]) = lower(POINT_ID)
             THEN first_block_table(lines, k + 1)
             ELSE split_point_row(s)[2]

RECURSIVE next_block_table(_, _)
\* Lines 139-156: the Table of the first data row from index k on and the
\* index the scan stops at; no Table when the next block comes first.
next_block_table(lines, k) ==
    IF k > Len(lines) THEN [table_val |-> <<>>, k |-> k]
    ELSE LET s == strip(lines[k])
         IN  IF s = <<>> THEN next_block_table(lines, k + 1)
             ELSE IF startswith(lower(s), POINT_HEADER_LOWER)
             THEN next_block_table(lines, k + 1)
             ELSE IF looks_like_values_line(s) \/ is_summary_header(s)
             THEN [table_val |-> <<>>, k |-> k]
             ELSE IF lower(split_point_row(s)[1]) = lower(POINT_ID)
             THEN next_block_table(lines, k + 1)
             ELSE [table_val |-> split_point_row(s)[2], k |-> k + 1]

RECURSIVE subsequent_blocks(_, _, _)
\* Lines 126-169.
subsequent_blocks(lines, i, out_rows) ==
    LET at == skip_blank(lines, skip_nonblank(lines, i))
    IN  IF at > Len(lines) THEN out_rows
        ELSE IF looks_like_values_line(lines[at])
        THEN LET found == next_block_table(lines, at + 1)
             IN  subsequent_blocks(
                     lines, found.k,
                     Append(out_rows,
                            summary_row(lines[at], found.table_val)))
        ELSE subsequent_blocks(lines, at + 1, out_rows)

\* Lines 80-171, for the lines of a file that exists.
parse_transfer_metrics_blocks(lines) ==
    LET i == skip_blank(lines, 1)
        j == skip_blank(lines, i + 1)
    IN  IF i <= Len(lines) /\ is_summary_header(lines[i])
        THEN IF j <= Len(lines) /\ looks_like_values_line(lines[j])
             THEN subsequent_blocks(
                      lines, j + 1,
                      <<summary_row(lines[j],
                                    first_block_table(lines, j + 1))>>)
             ELSE subsequent_blocks(lines, i + 1, <<>>)
        ELSE subsequent_blocks(lines, i, <<>>)

\* Line 178.
SummaryHeaders ==
    <<SUMMARY_KEYS[1], TABLE, SUMMARY_KEYS[2], SUMMARY_KEYS[3],
      SUMMARY_KEYS[4], SUMMARY_KEYS[5]>>

\* Line 179.
summary_values(rows) ==
    <<SummaryHeaders>>
    \o [i \in DOMAIN rows |->
          <<rows[i].model, rows[i].Table, rows[i].input_count,
            rows[i].cleaned_count, rows[i].transferred,
            rows[i].issue_percentage>>]

\* The columns G and L.
COLUMN_G == 7
COLUMN_L == 12

\* values().clear on the columns first..last of a tab.
clear_columns(g, first, last) ==
    trim_grid([i \in DOMAIN g |->
                 [j \in DOMAIN g[i] |->
                    IF first <= j /\ j <= last THEN EmptyCell ELSE g[i][j]]])

\* values().update of the block `new` with its top-left cell at
\* (row0, col0).
update_block(g, row0, col0, new) ==
    LET InNew(i, j) ==
            /\ i - row0 + 1 \in DOMAIN new
            /\ j - col0 + 1 \in DOMAIN new[i - row0 + 1]
        height == Max(Len(g), row0 - 1 + Len(new))
        width(i) ==
            Max(IF i \in DOMAIN g THEN Len(g[i]) ELSE 0,
                IF i - row0 + 1 \in DOMAIN new
                THEN col0 - 1 + Len(new[i - row0 + 1]) ELSE 0)
    IN  trim_grid([i \in 1..height |->
                     [j \in 1..width(i) |->
                        IF InNew(i, j) THEN new[i - row0 + 1][j - col0 + 1]
                        ELSE Cell(g, i, j)]])

\* Lines 180-181: the first and the last row of the range the update
\* names, G2:L{end_row}.
a1_rows(values) == [first |-> 2, last |-> Len(values)]

-----------------------------------------------------------------------------
(* transfermetrics_3.py: inputs and main                                   *)

MaxBlockLines == 5

SummaryHeaderLine ==
    SUMMARY_KEYS[1] \o <<"|">> \o SUMMARY_KEYS[2] \o <<"|">>
    \o SUMMARY_KEYS[3] \o <<"|">> \o SUMMARY_KEYS[4] \o <<"|">>
    \o SUMMARY_KEYS[5]

\* Lines of a transfer log with summary blocks: the summary header, two
\* values lines, the header of the point rows, a point row, a blank line.
BlockLines ==
    {SummaryHeaderLine,
     <<"m", "|", "1", "|", "1", "|", "0", "|", "0", "%">>,
     <<"n", "|", "2", "|", "2", "|", "1", "|", "5", ".", "0">>,
     <<"P", "o", "i", "n", "t", "I", "D", "|", "T", "a", "b", "l", "e", "|",
       "F", "i", "e", "l", "d", "|", "E", "r", "r", "o", "r">>,
     <<"P", "1", "|", "T", "|", "F", "|", "e">>,
     <<>>}

BlockFiles ==
    {[exists |-> FALSE, lines |-> <<>>]}
    \cup {[exists |-> TRUE, lines |-> lines] :
            lines \in SeqsUpTo(BlockLines, MaxBlockLines)}

\* The FieldPairs_Checked tab: not there, or with earlier values in
\* columns A, G and H.
CheckedBooks ==
    {<<>>,
     <<[title |-> CHECKED_SHEET_NAME,
        values |-> << <<<<"a">>, <<>>, <<>>, <<>>, <<>>, <<>>, <<"o">>,
                        <<"o">>>>,
                      <<<<"a">>>>,
                      <<<<>>, <<>>, <<>>, <<>>, <<>>, <<>>, <<"o">>>> >>,
        rules |-> <<>>]>>}

BlocksInit ==
    /\ CombineIdle
    /\ UpdateIdle
    /\ KeyIdle
    /\ PipeIdle
    /\ AmpIdle
    /\ FpIdle
    /\ CleanIdle
    /\ LineIdle
    /\ DiscIdle
    /\ SyncIdle
    /\ MetricsIdle
    /\ b_pc = "start"
    /\ b_file \in BlockFiles
    /\ b_rows = <<>>
    /\ tabs \in CheckedBooks
    /\ out_log = <<>>
    /\ exit_msg = ""

\* Lines 197-200.
B_Parse ==
    /\ b_pc = "start"
    /\ IF ~b_file.exists
       THEN /\ b_pc' = "exited"
            /\ exit_msg' = "File not found"
            /\ b_rows' = b_rows
       ELSE /\ b_rows' = parse_transfer_metrics_blocks(b_file.lines)
            /\ b_pc' = "parsed"
            /\ exit_msg' = exit_msg
    /\ UNCHANGED <<notBlocksVars, tabs, out_log, b_file>>

\* What values().update does with a range and the values sent: the values
\* are written from the first row of the range on when they fit into it,
\* and the request is refused when they have more rows than the range.  A
\* range whose last row is above its first (G2:L1) is taken either as the
\* rows between the two or refused.
UpdateOutcomes(rows, values) ==
    IF rows.last < rows.first
    THEN {[ok |-> TRUE, row0 |-> rows.last], [ok |-> FALSE, row0 |-> 0]}
    ELSE IF Len(values) <= rows.last - rows.first + 1
    THEN {[ok |-> TRUE, row0 |-> rows.first]}
    ELSE {[ok |-> FALSE, row0 |-> 0]}

\* Lines 173-194 and 202-204: write_block_summary.  The clear and the
\* update raise HttpError when the tab is not there.
B_Write ==
    /\ b_pc = "parsed"
    /\ IF ~HasTab(tabs, CHECKED_SHEET_NAME)
       THEN /\ b_pc' = "raised"
            /\ exit_msg' = "HttpError"
            /\ UNCHANGED <<tabs, out_log>>
       ELSE LET values == summary_values(b_rows)
                at == TabIndex(tabs, CHECKED_SHEET_NAME)
                cleared == clear_columns(tabs[at].values, COLUMN_G, COLUMN_L)
                log == Append(out_log,
                              OutputAction("clear", CHECKED_SHEET_NAME))
            IN  \E outcome \in UpdateOutcomes(a1_rows(values), values) :
                   IF outcome.ok
                   THEN /\ tabs' = [tabs EXCEPT ![at].values =
                                       update_block(cleared, outcome.row0,
                                                    COLUMN_G, values)]
                        /\ out_log' =
                               Append(log, OutputAction("update",
                                                        CHECKED_SHEET_NAME))
                        /\ b_pc' = "done"
                        /\ exit_msg' = exit_msg
                   ELSE /\ tabs' = [tabs EXCEPT ![at].values = cleared]
                        /\ out_log' = log
                        /\ b_pc' = "raised"
                        /\ exit_msg' = "HttpError"
    /\ UNCHANGED <<notBlocksVars, b_file, b_rows>>

BlocksNext ==
    \/ B_Parse
    \/ B_Write

SpecBlocks == BlocksInit /\ [][BlocksNext]_vars

-----------------------------------------------------------------------------
(* Properties of the block summaries                                       *)

CheckedGrid == tabs[TabIndex(tabs, CHECKED_SHEET_NAME)].values

\* The cells of columns G..L of a row of the tab.
SummaryCells(i) == [j \in 1..6 |-> Cell(CheckedGrid, i, COLUMN_G + j - 1)]

RowsOfRange(rows) == rows.last - rows.first + 1

\* C23: once write_block_summary has run on a tab that is there, row 1 of
\* G..L holds the header, rows 2..k+1 hold the k summary rows, and the range
\* named has as many rows as the values sent.
C23_HeaderAndRowsWritten ==
    (b_pc \in {"done", "raised"} /\ HasTab(tabs, CHECKED_SHEET_NAME)) =>
        LET values == summary_values(b_rows)
        IN  /\ \A i \in DOMAIN values : SummaryCells(i) = values[i]
            /\ RowsOfRange(a1_rows(values)) = Len(values)

\* The lines that start a block: a values line right after the summary
\* header or right after a blank line.
BlockStarts(lines) ==
    {p \in DOMAIN lines :
        /\ looks_like_values_line(lines[p])
        /\ p > 1
        /\ \/ is_summary_header(lines[p - 1])
           \/ strip(lines[p - 1]) = <<>>}

SummaryFields(r) ==
    <<r.model, r.input_count, r.cleaned_count, r.transferred,
      r.issue_percentage>>

\* C29: the rows returned are the values lines that start a block, one row
\* each, in file order.
C29_OneRowPerBlock ==
    b_pc \in {"parsed", "done", "raised"} =>
        LET lines == b_file.lines
            starts == sorted_by(BlockStarts(lines), <)
        IN  /\ Len(b_rows) = Len(starts)
            /\ \A i \in DOMAIN starts :
                  SummaryFields(b_rows[i]) = split5(lines[starts[i]])

-----------------------------------------------------------------------------
(* update_amp_review_data.py: pure functions                               *)

SOURCE_SHEET ==
    <<"C", "o", "p", "y", " ", "o", "f", " ", "A", "M", "P", "_", "r", "e",
    "v", "i", "e", "w">>

TARGET_SHEET ==
    <<"A", "M", "P", "_", "r", "e", "v", "i", "e", "w">>

REVIEWED ==
    <<"R", "e", "v", "i", "e", "w", "e", "d", " ", "(", "y", "e", "s", "/",
    "n", "o", ")">>
FIXED ==
    <<"F", "i", "x", "e", "d", " ", "(", "y", "e", "s", "/", "n", "o", ")">>
AMP_REVIEWER ==
    <<"A", "M", "P", "_", "R", "e", "v", "i", "e", "w", "e", "r">>
NOTES ==
    <<"N", "o", "t", "e", "s">>

MATCH_COLS == AMP_HEADER

COPY_COLS == <<REVIEWED, FIXED, AMP_REVIEWER, NOTES>>

RECURSIVE col_index_to_a1_from(_)
\* Lines 29-31, for the 1-based column number.
col_index_to_a1_from(col) ==
    IF col = 0 THEN <<>>
    ELSE col_index_to_a1_from((col - 1) \div 26)
         \o <<UpperAscii[((col - 1) % 26) + 1]>>

\* Lines 23-32.
col_index_to_a1(col_index_0_based) ==
    col_index_to_a1_from(col_index_0_based + 1)

RECURSIVE a1_to_column(_)
\* The 1-based column the service reads from column letters.
a1_to_column(letters) ==
    IF letters = <<>> THEN 0
    ELSE 26 * a1_to_column(SubSeq(letters, 1, Len(letters) - 1))
         + (CHOOSE k \in 1..26 : UpperAscii[k] = letters[Len(letters)])

\* Lines 61-65: the 0-based index of a name in the header row; of a name
\* that is there twice, the last.
header_index(header_row, name) ==
    (CHOOSE i \in DOMAIN header_row :
        /\ header_row[i] = name
        /\ \A j \in DOMAIN header_row : header_row[j] = name => j <= i) - 1

has_columns(header_row) ==
    \A k \in DOMAIN (MATCH_COLS \o COPY_COLS) :
       (MATCH_COLS \o COPY_COLS)[k] \in Range(header_row)

\* Lines 100 and 122.
row_extended(row, header_row) ==
    row \o [k \in 1..(Len(header_row) - Len(row)) |-> <<>>]

\* Lines 101 and 123.
match_key(row, header_row) ==
    [k \in DOMAIN MATCH_COLS |->
        row_extended(row, header_row)[header_index(header_row, MATCH_COLS[k]) + 1]]

\* Lines 103 and 136: the copy columns of a row.
copy_data(row, header_row) ==
    [k \in DOMAIN COPY_COLS |->
        row_extended(row, header_row)[header_index(header_row, COPY_COLS[k]) + 1]]

\* Lines 98-105: the copy data of the last source row with the key.
source_lookup(values, key) ==
    LET header_row == values[1]
        last == CHOOSE i \in 2..Len(values) :
                   /\ match_key(values[i], header_row) = key
                   /\ \A j \in 2..Len(values) :
                         match_key(values[j], header_row) = key => j <= i
    IN  copy_data(values[last], header_row)

source_keys(values) ==
    {match_key(values[i], values[1]) : i \in 2..Len(values)}

\* Lines 116-118.
min_copy_idx(header_row) ==
    CHOOSE m \in {header_index(header_row, COPY_COLS[k]) : k \in DOMAIN COPY_COLS} :
       \A k \in DOMAIN COPY_COLS : m <= header_index(header_row, COPY_COLS[k])

max_copy_idx(header_row) ==
    CHOOSE m \in {header_index(header_row, COPY_COLS[k]) : k \in DOMAIN COPY_COLS} :
       \A k \in DOMAIN COPY_COLS : m >= header_index(header_row, COPY_COLS[k])

\* Lines 134-144: the row in memory with the copy columns set to the
\* source's.
row_updated(row, header_row, src_vals) ==
    [j \in DOMAIN row_extended(row, header_row) |->
        IF \E k \in DOMAIN COPY_COLS :
              header_index(header_row, COPY_COLS[k]) + 1 = j
        THEN src_vals[CHOOSE k \in DOMAIN COPY_COLS :
                         header_index(header_row, COPY_COLS[k]) + 1 = j]
        ELSE row_extended(row, header_row)[j]]

\* Lines 146-163: the update of target row i (1-based in the sheet).
row_update(i, row, header_row, src_vals) ==
    [range |-> [start_col |-> col_index_to_a1(min_copy_idx(header_row)),
                end_col |-> col_index_to_a1(max_copy_idx(header_row)),
                row |-> i],
     values |-> <<SubSeq(row_updated(row, header_row, src_vals),
                         min_copy_idx(header_row) + 1,
                         max_copy_idx(header_row) + 1)>>]

RECURSIVE plan_updates(_, _, _)
\* Lines 110-163: the updates for the target rows from row i on.
plan_updates(source, target, i) ==
    IF i > Len(target) THEN <<>>
    ELSE LET header_row == target[1]
             key == match_key(target[i], header_row)
         IN  (IF /\ key \in source_keys(source)
                 /\ copy_data(target[i], header_row)
                        # source_lookup(source, key)
              THEN <<row_update(i, target[i], header_row,
                                source_lookup(source, key))>>
              ELSE <<>>)
             \o plan_updates(source, target, i + 1)

RECURSIVE strip_zeros(_)
strip_zeros(s) ==
    IF Len(s) > 1 /\ Head(s) = "0" THEN strip_zeros(Tail(s)) ELSE s

\* valueInputOption USER_ENTERED: the value is parsed as if typed into the
\* cell.  Of the conversions the model has the one of a text of digits,
\* which becomes a number and is shown without leading zeros.
user_entered(v) == IF v # <<>> /\ \A i \in DOMAIN v : v[i] \in Digits
                   THEN strip_zeros(v) ELSE v

RECURSIVE apply_updates(_, _)
\* values().batchUpdate of lines 187-195 on the cells of the target tab.
apply_updates(g, updates) ==
    IF updates = <<>> THEN g
    ELSE apply_updates(
             update_block(g, Head(updates).range.row,
                          a1_to_column(Head(updates).range.start_col),
                          <<MapSeq(user_entered, Head(updates).values[1])>>),
             Tail(updates))

\* Lines 46-58: the range A1:ZZZ.
A1_ZZZ_COLUMNS == 18278

-----------------------------------------------------------------------------
(* update_amp_review_data.py: inputs and main                              *)

MaxReviewRows == 2

MaxUpdateRuns == 2

ReviewHeader == MATCH_COLS \o COPY_COLS

\* Data rows of a review sheet as the service returns them: the key in the
\* PointID, and Reviewed empty (the row ends at Error), yes, or the text 01.
ReviewRows ==
    {<<<<"t">>, pid, <<"e">>>> \o reviewed :
        pid \in {<<"a">>, <<"b">>},
        reviewed \in {<<>>, <<<<"y", "e", "s">>>>, <<<<"0", "1">>>>}}

\* A sheet without any value, with a header that lacks Notes, with the
\* full header.
ReviewSheets ==
    {<<>>}
    \cup {<<h>> \o rows :
            h \in {ReviewHeader, SubSeq(ReviewHeader, 1, 6)},
            rows \in SeqsUpTo(ReviewRows, MaxReviewRows)}

UpdateInit ==
    /\ CombineIdle
    /\ KeyIdle
    /\ PipeIdle
    /\ AmpIdle
    /\ FpIdle
    /\ CleanIdle
    /\ LineIdle
    /\ DiscIdle
    /\ SyncIdle
    /\ MetricsIdle
    /\ BlocksIdle
    /\ u_pc = "start"
    /\ u_runs = 1
    /\ source_values = <<>>
    /\ target_values = <<>>
    /\ data_updates = <<>>
    /\ \E s \in ReviewSheets, t \in ReviewSheets :
          tabs = <<[title |-> SOURCE_SHEET, values |-> s, rules |-> <<>>],
                   [title |-> TARGET_SHEET, values |-> t, rules |-> <<>>]>>
    /\ out_log = <<>>
    /\ exit_msg = ""

\* Lines 72-95: both sheets are fetched; without values in one of them the
\* run ends; a header without one of the columns raises ValueError.
U_Fetch ==
    /\ u_pc = "start"
    /\ LET s == get_values(tabs[TabIndex(tabs, SOURCE_SHEET)].values,
                           A1_ZZZ_COLUMNS)
           t == get_values(tabs[TabIndex(tabs, TARGET_SHEET)].values,
                           A1_ZZZ_COLUMNS)
       IN  /\ source_values' = s
           /\ target_values' = t
           /\ IF s = <<>> \/ t = <<>>
              THEN u_pc' = "done" /\ exit_msg' = exit_msg
              ELSE IF ~has_columns(s[1]) \/ ~has_columns(t[1])
              THEN u_pc' = "raised" /\ exit_msg' = "ValueError"
              ELSE u_pc' = "fetched" /\ exit_msg' = exit_msg
    /\ data_updates' = <<>>
    /\ UNCHANGED <<notUpdateVars, tabs, out_log, u_runs>>

\* Lines 97-175.
U_Plan ==
    /\ u_pc = "fetched"
    /\ data_updates' = plan_updates(source_values, target_values, 2)
    /\ u_pc' = "planned"
    /\ UNCHANGED <<notUpdateVars, worldVars, u_runs, source_values,
                   target_values>>

\* Lines 177-198.
U_Apply ==
    /\ u_pc = "planned"
    /\ IF data_updates = <<>>
       THEN UNCHANGED <<tabs, out_log>>
       ELSE /\ tabs' = [tabs EXCEPT ![TabIndex(tabs, TARGET_SHEET)].values =
                           apply_updates(@, data_updates)]
            /\ out_log' = Append(out_log,
                                 OutputAction("batchUpdate", TARGET_SHEET))
    /\ u_pc' = "done"
    /\ UNCHANGED <<notUpdateVars, exit_msg, u_runs, source_values,
                   target_values, data_updates>>

\* The script is run again on the two sheets as they are now.
U_RunAgain ==
    /\ u_pc = "done"
    /\ u_runs < MaxUpdateRuns
    /\ u_runs' = u_runs + 1
    /\ u_pc' = "start"
    /\ UNCHANGED <<notUpdateVars, worldVars, source_values, target_values,
                   data_updates>>

UpdateNext ==
    \/ U_Fetch
    \/ U_Plan
    \/ U_Apply
    \/ U_RunAgain

SpecUpdate == UpdateInit /\ [][UpdateNext]_vars

-----------------------------------------------------------------------------
(* Properties of update_amp_review_data.py                                 *)

\* The rows of the target the prepared updates write.
RowsWritten == {data_updates[k].range.row : k \in DOMAIN data_updates}

\* The target row has a key of the source and copy columns that differ
\* from those of the last source row with the key.
DiffersFromSource(i) ==
    LET key == match_key(target_values[i], target_values[1])
    IN  /\ key \in source_keys(source_values)
        /\ copy_data(target_values[i], target_values[1])
               # source_lookup(source_values, key)

\* C24: the updates of a run write only target rows whose key is in the
\* source and whose copy columns differ from the source's, and a second run
\* on the unchanged source and the target the first run left prepares no
\* update.
C24_OnlyChangedRowsThenNone ==
    u_pc = "planned" =>
        /\ \A i \in RowsWritten :
              i \in 2..Len(target_values) /\ DiffersFromSource(i)
        /\ u_runs = 2 => data_updates = <<>>

-----------------------------------------------------------------------------
(* combine_invalid_welldata.py: pure functions.  A file is [exists,        *)
(* lines], its lines without their ends; a CSV row is a sequence of        *)
(* fields.                                                                 *)

INPUT_PREFIX ==
    <<"I", "n", "v", "a", "l", "i", "d", "W", "e", "l", "l", "D", "a", "t",
      "a">>

CSV_SUFFIX == <<".", "c", "s", "v">>

\* Line 7: INPUT_PATTERN = "InvalidWellData*.csv"
INPUT_PATTERN(name) ==
    /\ Len(name) >= Len(INPUT_PREFIX) + Len(CSV_SUFFIX)
    /\ startswith(name, INPUT_PREFIX)
    /\ SubSeq(name, Len(name) - Len(CSV_SUFFIX) + 1, Len(name)) = CSV_SUFFIX

\* Line 10
OUTPUT_FILE ==
    INPUT_PREFIX \o <<"_", "c", "o", "m", "b", "i", "n", "e", "d">>
        \o CSV_SUFFIX

NoSuchFile == [exists |-> FALSE, lines |-> <<>>]

TextFile(lines) == [exists |-> TRUE, lines |-> lines]

\* Line 13: sorted(glob.glob(INPUT_PATTERN))
glob_sorted(dir) ==
    sorted_by({n \in DOMAIN dir : dir[n].exists /\ INPUT_PATTERN(n)}, str_lt)

\* The same, the output file left out.
glob_sorted_inputs(dir) ==
    sorted_by({n \in DOMAIN dir : /\ dir[n].exists
                                  /\ INPUT_PATTERN(n)
                                  /\ n # OUTPUT_FILE}, str_lt)

RECURSIVE csv_fields(_, _, _, _)

\* csv.reader on one line: a comma ends a field; a double quote at the
\* start of a field opens a quoted part, in which a comma is text and two
\* double quotes are one.
csv_fields(s, cur, quoted, acc) ==
    IF s = <<>> THEN Append(acc, cur)
    ELSE IF quoted
    THEN IF Head(s) = "\""
         THEN IF Len(s) > 1 /\ s[2] = "\""
              THEN csv_fields(Tail(Tail(s)), Append(cur, "\""), TRUE, acc)
              ELSE csv_fields(Tail(s), cur, FALSE, acc)
         ELSE csv_fields(Tail(s), Append(cur, Head(s)), TRUE, acc)
    ELSE IF Head(s) = ","
    THEN csv_fields(Tail(s), <<>>, FALSE, Append(acc, cur))
    ELSE IF Head(s) = "\"" /\ cur = <<>>
    THEN csv_fields(Tail(s), cur, TRUE, acc)
    ELSE csv_fields(Tail(s), Append(cur, Head(s)), FALSE, acc)

\* Line 28: a row of csv.reader; an empty line is the row without fields.
csv_row(line) ==
    IF line = <<>> THEN <<>> ELSE csv_fields(line, <<>>, FALSE, <<>>)

RECURSIVE double_quotes(_)

double_quotes(field) ==
    IF field = <<>> THEN <<>>
    ELSE IF Head(field) = "\""
    THEN <<"\"", "\"">> \o double_quotes(Tail(field))
    ELSE <<Head(field)>> \o double_quotes(Tail(field))

\* A field as csv.writer writes it: in double quotes if it holds a comma,
\* a double quote or a line end.
csv_field(field) ==
    IF \E i \in DOMAIN field : field[i] \in {",", "\"", "\n"}
    THEN <<"\"">> \o double_quotes(field) \o <<"\"">>
    ELSE field

\* Lines 35, 39: the line writer.writerow(row) writes; a row of one empty
\* field is written as two double quotes.
writerow(row) ==
    IF row = <<<<>>>> THEN <<"\"", "\"">>
    ELSE join([i \in DOMAIN row |-> csv_field(row[i])], <<",">>)

-----------------------------------------------------------------------------
(* combine_invalid_welldata.py: inputs and main                            *)

MaxFileLines == 2
MaxCombineRuns == 2

\* The lines the disk has room for.
MaxOutLines == 6

InvalidWellData1 == INPUT_PREFIX \o <<"1">> \o CSV_SUFFIX
InvalidWellData_new == INPUT_PREFIX \o <<"_", "n", "e", "w">> \o CSV_SUFFIX
OtherFile == <<"n", "o", "t", "e", "s">> \o CSV_SUFFIX

FileNames == {InvalidWellData1, InvalidWellData_new, OtherFile, OUTPUT_FILE}

CsvLines ==
    {<<"k", ",", "v">>, <<"1", ",", "a">>, <<"\"", "2", "\"", ",", "b">>,
     <<>>}

WellDataFiles ==
    {NoSuchFile} \cup {TextFile(l) : l \in SeqsUpTo(CsvLines, MaxFileLines)}

\* The combined file of an earlier run of the script.
StaleOutput == TextFile(<< <<"k", ",", "v">>, <<"0", ",", "z">> >>)

Folders ==
    {[n \in FileNames |->
         IF n = InvalidWellData1 THEN f1
         ELSE IF n = InvalidWellData_new THEN f2
         ELSE IF n = OtherFile THEN TextFile(<< <<"k", ",", "v">> >>)
         ELSE out] :
       f1 \in WellDataFiles, f2 \in WellDataFiles, out \in {NoSuchFile, StaleOutput}}

CombineInit ==
    /\ UpdateIdle
    /\ BlocksIdle
    /\ MetricsIdle
    /\ SyncIdle
    /\ KeyIdle
    /\ PipeIdle
    /\ AmpIdle
    /\ FpIdle
    /\ CleanIdle
    /\ LineIdle
    /\ DiscIdle
    /\ WorldIdle
    /\ c_pc = "start"
    /\ c_runs = 1
    /\ folder \in Folders
    /\ c_files = <<>>
    /\ c_i = 0
    /\ c_line = 0
    /\ writer = FALSE
    /\ out_f = <<>>
    /\ flushed = 0
    /\ total_rows = 0
    /\ opened = {}
    /\ c_first = NoSuchFile

\* Lines 13-25: the input files are listed; with none the run ends, else
\* the output file is opened for writing, which empties it.
C_Glob ==
    /\ c_pc = "start"
    /\ c_files' = glob_sorted(folder)
    /\ IF c_files' = <<>>
       THEN /\ c_pc' = "done"
            /\ c_first' = IF c_runs = 1 THEN folder[OUTPUT_FILE] ELSE c_first
            /\ UNCHANGED <<folder, c_i>>
       ELSE /\ c_pc' = "copying"
            /\ folder' = [folder EXCEPT ![OUTPUT_FILE] = TextFile(<<>>)]
            /\ c_i' = 1
            /\ UNCHANGED c_first
    /\ c_line' = 0
    /\ writer' = FALSE
    /\ out_f' = <<>>
    /\ flushed' = 0
    /\ total_rows' = 0
    /\ opened' = {}
    /\ UNCHANGED <<notCombineVars, worldVars, c_runs>>

\* The file being read.
in_f == folder[c_files[c_i]]

\* Lines 27-35: the next file is opened and its first row read; the first
\* file's first row is written if it has a field.
C_Header ==
    /\ c_pc = "copying"
    /\ c_i <= Len(c_files)
    /\ c_line = 0
    /\ opened' = opened \cup {c_files[c_i]}
    /\ LET header == IF in_f.lines = <<>> THEN None
                     ELSE csv_row(in_f.lines[1])
       IN  /\ writer' = TRUE
           /\ out_f' = IF ~writer /\ header # None /\ header # <<>>
                       THEN Append(out_f, writerow(header))
                       ELSE out_f
           /\ c_line' = IF header = None THEN 1 ELSE 2
    /\ UNCHANGED <<notCombineVars, worldVars, c_pc, c_runs, folder, c_files,
                   c_i, flushed, total_rows, c_first>>

\* Lines 38-40: one more row of the file is read and written; the write
\* fails when the disk is full.
C_Row ==
    /\ c_pc = "copying"
    /\ c_i <= Len(c_files)
    /\ c_line >= 2
    /\ c_line <= Len(in_f.lines)
    /\ IF Len(out_f) >= MaxOutLines
       THEN /\ c_pc' = "raised"
            /\ folder' = [folder EXCEPT ![OUTPUT_FILE] = TextFile(out_f)]
            /\ flushed' = Len(out_f)
            /\ UNCHANGED <<out_f, total_rows, c_line>>
       ELSE /\ out_f' = Append(out_f, writerow(csv_row(in_f.lines[c_line])))
            /\ total_rows' = total_rows + 1
            /\ c_line' = c_line + 1
            /\ UNCHANGED <<c_pc, folder, flushed>>
    /\ UNCHANGED <<notCombineVars, worldVars, c_runs, c_files, c_i, writer,
                   opened, c_first>>

\* Line 25: the buffer of the output file is full and is written out.
C_Flush ==
    /\ c_pc = "copying"
    /\ flushed < Len(out_f)
    /\ flushed' = Len(out_f)
    /\ folder' = [folder EXCEPT ![OUTPUT_FILE] = TextFile(out_f)]
    /\ UNCHANGED <<notCombineVars, worldVars, c_pc, c_runs, c_files, c_i,
                   c_line, writer, out_f, total_rows, opened, c_first>>

\* Lines 26, 38, 42: the file has no more row; the next file is taken.
C_NextFile ==
    /\ c_pc = "copying"
    /\ c_i <= Len(c_files)
    /\ c_line >= 1
    /\ c_line > Len(in_f.lines)
    /\ c_i' = c_i + 1
    /\ c_line' = 0
    /\ UNCHANGED <<notCombineVars, worldVars, c_pc, c_runs, folder, c_files,
                   writer, out_f, flushed, total_rows, opened, c_first>>

\* Lines 25, 44: after the last file the output file is closed.
C_Close ==
    /\ c_pc = "copying"
    /\ c_i > Len(c_files)
    /\ c_pc' = "done"
    /\ flushed' = Len(out_f)
    /\ folder' = [folder EXCEPT ![OUTPUT_FILE] = TextFile(out_f)]
    /\ c_first' = IF c_runs = 1 THEN TextFile(out_f) ELSE c_first
    /\ UNCHANGED <<notCombineVars, worldVars, c_runs, c_files, c_i, c_line,
                   writer, out_f, total_rows, opened>>

\* The script is run again in the directory as the last run left it.
C_RunAgain ==
    /\ c_pc = "done"
    /\ c_runs < MaxCombineRuns
    /\ c_runs' = c_runs + 1
    /\ c_pc' = "start"
    /\ UNCHANGED <<notCombineVars, worldVars, folder, c_files, c_i, c_line,
                   writer, out_f, flushed, total_rows, opened, c_first>>

CombineNext ==
    \/ C_Glob
    \/ C_Header
    \/ C_Row
    \/ C_Flush
    \/ C_NextFile
    \/ C_Close
    \/ C_RunAgain

SpecCombine == CombineInit /\ [][CombineNext]_vars

-----------------------------------------------------------------------------
(* Properties of combine_invalid_welldata.py                               *)

\* The rows of a file.
RowsOfFile(f) == [i \in DOMAIN f.lines |-> csv_row(f.lines[i])]

HeaderOfFirst(dir) ==
    LET inputs == glob_sorted_inputs(dir)
        first == RowsOfFile(dir[inputs[1]])
    IN  IF first = <<>> THEN <<>> ELSE <<first[1]>>

RECURSIVE DataRowsOfAll(_, _)

DataRowsOfAll(dir, names) ==
    IF names = <<>> THEN <<>>
    ELSE LET rows == RowsOfFile(dir[Head(names)])
         IN  (IF rows = <<>> THEN <<>> ELSE Tail(rows))
                 \o DataRowsOfAll(dir, Tail(names))

\* C28: a second run of combine_invalid_welldata in the same directory
\* ends with the combined file of the first run; the output file is never
\* opened as an input; the output of a run holds the header of the first
\* input file, once, and then the data rows of all input files in the
\* sorted order of their names.
C28_SecondRunSameFile ==
    /\ OUTPUT_FILE \notin opened
    /\ c_pc \in {"done", "raised"} /\ c_runs = 2 =>
           c_pc = "done" /\ folder[OUTPUT_FILE] = c_first
    /\ c_pc = "done" /\ glob_sorted_inputs(folder) # <<>> =>
           RowsOfFile(folder[OUTPUT_FILE]) =
               HeaderOfFirst(folder)
                   \o DataRowsOfAll(folder, glob_sorted_inputs(folder))

-----------------------------------------------------------------------------
(* find_datasource_tables.py: pure functions                               *)

DATA_SOURCE == "DataSource"
MEASURING_AGENCY == "MeasuringAgency"

\* The header row of the output CSV.
PairsHeader == <<DATA_SOURCE, "DataTable">>

NotWritten == <<"<not written>">>

\* Line 35: row["DataSource"] or ""
cell_or_empty(x) == IF x = None THEN <<>> ELSE x

RECURSIVE stripped_cells(_)
\* Lines 34-37: the stripped cells that are not empty.
stripped_cells(cells) ==
    IF cells = <<>> THEN <<>>
    ELSE LET v == strip(cell_or_empty(Head(cells)))
         IN  (IF v = <<>> THEN <<>> ELSE <<v>>) \o stripped_cells(Tail(cells))

RECURSIVE dedup_values(_, _, _)
\* Lines 39-43: the first of the values that are equal without regard to
\* case.
dedup_values(vals, seen, out) ==
    IF vals = <<>> THEN out
    ELSE LET v == Head(vals)
         IN  IF lower(v) \in seen
             THEN dedup_values(Tail(vals), seen, out)
             ELSE dedup_values(Tail(vals), seen \cup {lower(v)},
                               Append(out, v))

\* Lines 28-44, for a CSV that has the DataSource column.
read_csv_values(file) == dedup_values(stripped_cells(file.cells), {}, <<>>)

RECURSIVE double_closing(_)
double_closing(name) ==
    IF name = <<>> THEN <<>>
    ELSE (IF Head(name) = "]" THEN <<"]", "]">> ELSE <<Head(name)>>)
         \o double_closing(Tail(name))

\* Lines 16-18.
qident(name) == <<"[">> \o double_closing(name) \o <<"]">>

\* Lines 88-108: the statement of one object and the layout of its
\* parameters.  The statement is the object it selects from and the columns
\* its WHERE clause compares.
obj_check(o) ==
    LET columns == (IF o.has_ds = 1 THEN <<DATA_SOURCE>> ELSE <<>>)
                   \o (IF o.has_ma = 1 THEN <<MEASURING_AGENCY>> ELSE <<>>)
    IN  [sch |-> o.schema_name,
         obj |-> o.object_name,
         sql |-> [from |-> qident(o.schema_name) \o <<".">>
                           \o qident(o.object_name),
                  where |-> columns],
         params_layout |-> [i \in DOMAIN columns |-> "v"]]

\* Line 118: f"{sch}.{obj}"
data_table(check) == check.sch \o <<".">> \o check.obj

\* Line 114: the value once per placeholder.
probe_params(v, check) == [i \in DOMAIN check.params_layout |-> v]

\* The loop abandons the objects left for a value whose probe failed.
next_probe_abandon_value(v, o, n_objs, outcome) ==
    IF outcome = "error" \/ o >= n_objs THEN <<v + 1, 1>> ELSE <<v, o + 1>>

\* Lines 111-112: the next pass of the two loops, whatever the probe did.
next_probe(v, o, n_objs, outcome) ==
    IF o < n_objs THEN <<v, o + 1>> ELSE <<v + 1, 1>>

\* Line 127.
lower_pair(pair) == <<lower(pair[1]), lower(pair[2])>>

RECURSIVE dedup_pairs(_, _, _)
\* Lines 124-130.
dedup_pairs(found, seen, uniq_pairs) ==
    IF found = <<>> THEN uniq_pairs
    ELSE LET key == lower_pair(Head(found))
         IN  IF key \in seen
             THEN dedup_pairs(Tail(found), seen, uniq_pairs)
             ELSE dedup_pairs(Tail(found), seen \cup {key},
                              Append(uniq_pairs, Head(found)))

-----------------------------------------------------------------------------
(* find_datasource_tables.py: inputs                                       *)

MaxInputRows == 2

USGS == <<"U", "S", "G", "S">>

\* Cells of the DataSource column: two values equal without regard to
\* case, one with blanks around it, an empty one, a short row, another
\* value.
DataSourceCells ==
    {USGS, lower(USGS), <<" ">> \o USGS \o <<" ">>, <<>>, None,
     <<"N", "M">>}

InputCsvs ==
    {[fieldnames |-> {"Other"}, cells |-> <<>>]}
    \cup {[fieldnames |-> {DATA_SOURCE}, cells |-> cells] :
            cells \in SeqsUpTo(DataSourceCells, MaxInputRows)}

Dbo == <<"d", "b", "o">>

DbObject(name, has_ds, has_ma) ==
    [schema_name |-> Dbo, object_name |-> name,
     has_ds |-> has_ds, has_ma |-> has_ma]

\* What the catalog query returns, ordered by name: nothing; one table; a
\* table and a view; two objects whose names differ in case only (a
\* database with a case-sensitive collation).
Catalogs ==
    {<<>>,
     <<DbObject(Wells, 1, 0)>>,
     <<DbObject(Sites, 1, 1), DbObject(Wells, 0, 1)>>,
     <<DbObject(Wells, 1, 0), DbObject(lower(Wells), 1, 1)>>}

Databases ==
    {[reachable |-> FALSE, objects |-> <<>>]}
    \cup {[reachable |-> TRUE, objects |-> objs] : objs \in Catalogs}

\* What a probe can do: fetch a row, fetch none, raise.
ProbeOutcomes == {"row", "no_row", "error"}

DiscInit ==
    /\ CombineIdle
    /\ UpdateIdle
    /\ BlocksIdle
    /\ MetricsIdle
    /\ SyncIdle
    /\ KeyIdle
    /\ PipeIdle
    /\ AmpIdle
    /\ FpIdle
    /\ CleanIdle
    /\ LineIdle
    /\ WorldIdle
    /\ d_pc = "start"
    /\ in_csv \in InputCsvs
    /\ database \in Databases
    /\ d_values = <<>>
    /\ obj_checks = <<>>
    /\ d_v = 1
    /\ d_o = 1
    /\ d_pairs = <<>>
    /\ executed = <<>>
    /\ printed = <<>>
    /\ out_csv = NotWritten

-----------------------------------------------------------------------------
(* find_datasource_tables.py: main                                         *)

\* Lines 66-71: the values are read; a CSV without the DataSource column
\* raises ValueError; without values the output is the header alone.
D_ReadValues ==
    /\ d_pc = "start"
    /\ IF DATA_SOURCE \notin in_csv.fieldnames
       THEN /\ d_pc' = "raised"
            /\ UNCHANGED <<d_values, printed, out_csv>>
       ELSE LET values == read_csv_values(in_csv)
            IN  /\ d_values' = values
                /\ IF values = <<>>
                   THEN /\ out_csv' = <<PairsHeader>>
                        /\ printed' = Append(printed, <<"No DataSource values">>)
                        /\ d_pc' = "done"
                   ELSE /\ d_pc' = "values_read"
                        /\ UNCHANGED <<printed, out_csv>>
    /\ UNCHANGED <<notDiscVars, worldVars, in_csv, database, obj_checks,
                   d_v, d_o, d_pairs, executed>>

\* Lines 73-108: the connection (pyodbc.connect raises when the server is
\* not reached), the catalog query, the statement of every object.
D_Discover ==
    /\ d_pc = "values_read"
    /\ IF ~database.reachable
       THEN /\ d_pc' = "raised"
            /\ UNCHANGED <<obj_checks, printed, out_csv>>
       ELSE LET objs == database.objects
            IN  IF objs = <<>>
                THEN /\ out_csv' = <<PairsHeader>>
                     /\ printed' = Append(printed, <<"No dbo tables/views">>)
                     /\ d_pc' = "done"
                     /\ UNCHANGED obj_checks
                ELSE /\ obj_checks' = [i \in DOMAIN objs |-> obj_check(objs[i])]
                     /\ d_pc' = "probing"
                     /\ UNCHANGED <<printed, out_csv>>
    /\ UNCHANGED <<notDiscVars, worldVars, in_csv, database, d_values,
                   d_v, d_o, d_pairs, executed>>

\* Lines 111-121: one probe of one value against one object.
D_Probe ==
    /\ d_pc = "probing"
    /\ \E outcome \in ProbeOutcomes :
          LET v == d_values[d_v]
              check == obj_checks[d_o]
              next == next_probe(d_v, d_o, Len(obj_checks), outcome)
          IN  /\ executed' = Append(executed,
                                    [sql |-> check.sql,
                                     params |-> probe_params(v, check),
                                     outcome |-> outcome])
              /\ d_pairs' = IF outcome = "row"
                            THEN Append(d_pairs, <<v, data_table(check)>>)
                            ELSE d_pairs
              /\ printed' = IF outcome = "error"
                            THEN Append(printed,
                                        <<"Skipped", data_table(check)>>)
                            ELSE printed
              /\ d_v' = next[1]
              /\ d_o' = next[2]
              /\ d_pc' = IF next[1] > Len(d_values) THEN "probed"
                         ELSE "probing"
    /\ UNCHANGED <<notDiscVars, worldVars, in_csv, database, d_values,
                   obj_checks, out_csv>>

\* Lines 123-137: the pairs without repeats, the output CSV, the last line.
D_Write ==
    /\ d_pc = "probed"
    /\ LET uniq_pairs == dedup_pairs(d_pairs, {}, <<>>)
       IN  /\ out_csv' = <<PairsHeader>> \o uniq_pairs
           /\ printed' = Append(printed, <<"Wrote", Len(uniq_pairs)>>)
    /\ d_pc' = "done"
    /\ UNCHANGED <<notDiscVars, worldVars, in_csv, database, d_values,
                   obj_checks, d_v, d_o, d_pairs, executed>>

DiscNext ==
    \/ D_ReadValues
    \/ D_Discover
    \/ D_Probe
    \/ D_Write

\* The script runs to its end once started.
SpecDiscover == DiscInit /\ [][DiscNext]_vars /\ WF_vars(DiscNext)

-----------------------------------------------------------------------------
(* Properties of the discovery loop                                        *)

Failures == {k \in DOMAIN executed : executed[k].outcome = "error"}

SomeProbeFailed == Failures # {}

\* The probe the two loops make in their k-th pass.
ProbeAt(k) ==
    LET n == Len(obj_checks)
        v == d_values[((k - 1) \div n) + 1]
        check == obj_checks[((k - 1) % n) + 1]
    IN  [sql |-> check.sql, params |-> probe_params(v, check)]

ProbeOf(e) == [sql |-> e.sql, params |-> e.params]

\* The probes made so far are the first passes of the two loops, each made
\* once and in order.
ProbesInOrder ==
    /\ Len(executed) <= Len(d_values) * Len(obj_checks)
    /\ \A k \in DOMAIN executed : ProbeOf(executed[k]) = ProbeAt(k)

EveryProbeExecuted ==
    /\ ProbesInOrder
    /\ Len(executed) = Len(d_values) * Len(obj_checks)

\* The object of the k-th probe, as the Skipped line and the pair name it.
ObjectAt(k) == data_table(obj_checks[((k - 1) % Len(obj_checks)) + 1])

ValueAt(k) == d_values[((k - 1) \div Len(obj_checks)) + 1]

RECURSIVE SkippedLines(_)
SkippedLines(k) ==
    IF k = 0 THEN <<>>
    ELSE SkippedLines(k - 1)
         \o (IF k \in Failures THEN <<<<"Skipped", ObjectAt(k)>>>> ELSE <<>>)

\* One Skipped line per failed probe, in order, and nothing else printed
\* while the loop runs.
FailuresLogged ==
    d_pc \in {"probing", "probed"} => printed = SkippedLines(Len(executed))

FoundPairs ==
    {<<ValueAt(k), ObjectAt(k)>> :
        k \in {j \in DOMAIN executed : executed[j].outcome = "row"}}

Written == IF out_csv = NotWritten THEN {} ELSE Range(Tail(out_csv))

\* The output has the header and then every found pair.
FoundPairsWritten ==
    /\ out_csv # NotWritten
    /\ Head(out_csv) = PairsHeader
    /\ FoundPairs \subseteq Written

\* The output has the header and then, for every found pair, a found pair
\* equal to it without regard to case; no row is there twice.
FoundPairsWrittenOncePerKey ==
    /\ out_csv # NotWritten
    /\ Head(out_csv) = PairsHeader
    /\ Written \subseteq FoundPairs
    /\ \A p \in FoundPairs : \E q \in Written : lower_pair(q) = lower_pair(p)
    /\ Cardinality(Written) = Len(out_csv) - 1

-----------------------------------------------------------------------------
(* One line of the transfer log and its readers                            *)

MaxLineLen == 6

LineAlphabet == {"a", " ", "|"}

DataLines == SeqsUpTo(LineAlphabet, MaxLineLen)

LineInit ==
    /\ CombineIdle
    /\ UpdateIdle
    /\ BlocksIdle
    /\ MetricsIdle
    /\ SyncIdle
    /\ KeyIdle
    /\ PipeIdle
    /\ AmpIdle
    /\ FpIdle
    /\ CleanIdle
    /\ DiscIdle
    /\ WorldIdle
    /\ ln_pc = "line"
    /\ ln_raw \in DataLines
    /\ ln_metrics = <<>>
    /\ ln_counts = <<>>
    /\ ln_blocks = <<>>
    /\ ln_amp = <<>>

\* transfermetrics.py reads the line.
L_Metrics ==
    /\ ln_pc = "line"
    /\ ln_metrics' = robust_read_transfer_metrics(ln_raw)
    /\ ln_pc' = "metrics"
    /\ UNCHANGED <<ln_raw, ln_counts, ln_blocks, ln_amp, worldVars,
                   notLineVars>>

\* transfermetrics_2.py reads the line.
L_Counts ==
    /\ ln_pc = "metrics"
    /\ ln_counts' = robust_read_counts(ln_raw)
    /\ ln_pc' = "counts"
    /\ UNCHANGED <<ln_raw, ln_metrics, ln_blocks, ln_amp, worldVars,
                   notLineVars>>

\* transfermetrics_3.py reads the line as a point row.
L_Blocks ==
    /\ ln_pc = "counts"
    /\ ln_blocks' = IF strip(ln_raw) = <<>> THEN <<>>
                    ELSE <<split_point_row(strip(ln_raw))>>
    /\ ln_pc' = "blocks"
    /\ UNCHANGED <<ln_raw, ln_metrics, ln_counts, ln_amp, worldVars,
                   notLineVars>>

\* transfer_to_amp_review.py reads the line inside a block.
L_Amp ==
    /\ ln_pc = "blocks"
    /\ ln_amp' = amp_parts(ln_raw)
    /\ ln_pc' = "read"
    /\ UNCHANGED <<ln_raw, ln_metrics, ln_counts, ln_blocks, worldVars,
                   notLineVars>>

LineNext ==
    \/ L_Metrics
    \/ L_Counts
    \/ L_Blocks
    \/ L_Amp

SpecLine == LineInit /\ [][LineNext]_vars

-----------------------------------------------------------------------------
(* Properties of the readers of the transfer log                           *)

LineRead == ln_pc = "read"

Pipes(s) == {i \in DOMAIN s : s[i] = "|"}

\* The position of the n-th pipe of s; 0 for n = 0.
NthPipe(s, n) ==
    IF n = 0 THEN 0
    ELSE CHOOSE i \in Pipes(s) : Cardinality({j \in Pipes(s) : j < i}) = n - 1

\* The k-th of the first three fields, and what follows the third pipe.
Field(s, k) == SubSeq(s, NthPipe(s, k - 1) + 1, NthPipe(s, k) - 1)
Remainder(s) == SubSeq(s, NthPipe(s, 3) + 1, Len(s))

HasErrorField(s) == Cardinality(Pipes(s)) >= 3

FirstThree(s) == <<strip(Field(s, 1)), strip(Field(s, 2)), strip(Field(s, 3))>>

\* The remainder with each of its pipe-separated pieces stripped, and the
\* pieces after the first joined again with " | " and stripped.
Rejoined(r) ==
    LET pieces == MapSeq(strip, split(r, "|"))
        extra == strip(join(Tail(pieces), <<" ", "|", " ">>))
    IN  IF extra = <<>> THEN pieces[1]
        ELSE pieces[1] \o <<" ", "|", " ">> \o extra

\* What the three transfermetrics scripts get from a line with at least
\* three pipes: the first three fields and the whole remainder, stripped.
SplitAtFirstThree ==
    LET four == FirstThree(ln_raw) \o <<strip(Remainder(ln_raw))>>
    IN  /\ ln_metrics = <<four>>
        /\ Len(ln_counts) = 1 /\ ln_counts[1].parts = four
        /\ ln_blocks = <<four>>

\* C16 as claimed: every reader splits a data line on its first three
\* pipes only and takes the whole remainder, further pipes kept as they
\* are, as the Error text.
C16_RemainderIsError ==
    LineRead /\ HasErrorField(ln_raw) =>
        /\ SplitAtFirstThree
        /\ ln_amp = <<[parts |-> FirstThree(ln_raw),
                       combined_error |-> strip(Remainder(ln_raw))]>>

\* C16 amended: the transfermetrics scripts do so; transfer_to_amp_review
\* splits at every pipe, strips every piece and joins the pieces of the
\* remainder again with " | ".  A line with fewer than three pipes gives
\* an empty Error text in the former and no row in the latter.
C16_AmpRejoinsRemainder ==
    LineRead =>
        IF HasErrorField(ln_raw)
        THEN /\ SplitAtFirstThree
             /\ ln_amp = <<[parts |-> FirstThree(ln_raw),
                            combined_error |-> Rejoined(Remainder(ln_raw))]>>
        ELSE /\ ln_amp = <<>>
             /\ \A i \in DOMAIN ln_metrics : ln_metrics[i][4] = <<>>

\* The line "|||a|a": Error "a|a" in the one reader, "a | a" in the other.
C16_Witness ==
    /\ LineRead
    /\ ln_raw = <<"|", "|", "|", "a", "|", "a">>
    /\ ln_metrics[1][4] = <<"a", "|", "a">>
    /\ ln_amp[1].combined_error = <<"a", " ", "|", " ", "a">>

-----------------------------------------------------------------------------
(* clean_error on its own: inputs                                          *)

MaxValueLen == 3

\* Characters of a sensor_type or organization value.
ValueAlphabet == {"F", "o", " ", "\\", "\"", "'"}

Values == SeqsUpTo(ValueAlphabet, MaxValueLen) \ {<<>>}

\* "row.ID=42, Value error, key error adding sensor_type: X error: 'X'"
SensorMessage(X) ==
    <<"r", "o", "w", ".", "I", "D", "=", "4", "2", ",", " ", "V",
        "a", "l", "u", "e", " ", "e", "r", "r", "o", "r", ",", " ",
        "k", "e", "y", " ", "e", "r", "r", "o", "r", " ", "a", "d",
        "d", "i", "n", "g", " ", "s", "e", "n", "s", "o", "r", "_",
        "t", "y", "p", "e", ":", " ">>
        \o X \o <<" ", "e", "r", "r", "o", "r", ":", " ", "'">> \o X
        \o <<"'">>

\* 'Key (organization)=(X) is not present in table "lexicon_term".'
OrgMessage(X) ==
    <<"K", "e", "y", " ", "(", "o", "r", "g", "a", "n", "i", "z",
        "a", "t", "i", "o", "n", ")", "=", "(">>
        \o X
        \o <<")", " ", "i", "s", " ", "n", "o", "t", " ", "p", "r", "e",
            "s", "e", "n", "t", " ", "i", "n", " ", "t", "a", "b", "l",
            "e", " ", "\"", "l", "e", "x", "i", "c", "o", "n", "_",
            "t", "e", "r", "m", "\"", ".">>

\* The two phrases for every value, and the values as messages of their
\* own.
CleanInputs ==
    {SensorMessage(X) : X \in Values} \cup {OrgMessage(X) : X \in Values}
        \cup Values

CleanInit ==
    /\ CombineIdle
    /\ UpdateIdle
    /\ BlocksIdle
    /\ MetricsIdle
    /\ SyncIdle
    /\ KeyIdle
    /\ PipeIdle
    /\ AmpIdle
    /\ FpIdle
    /\ LineIdle
    /\ DiscIdle
    /\ WorldIdle
    /\ ce_pc = "input"
    /\ ce_msg \in CleanInputs
    /\ ce_out = [raises |-> FALSE, out |-> <<>>]

\* out = clean_error(msg)
CleanError ==
    /\ ce_pc = "input"
    /\ ce_out' = clean_error(ce_msg)
    /\ ce_pc' = "cleaned"
    /\ UNCHANGED <<ce_msg, worldVars, notCleanVars>>

CleanNext == CleanError

SpecClean == CleanInit /\ [][CleanNext]_vars

-----------------------------------------------------------------------------
(* Properties of clean_error                                               *)

Cleaned == ce_pc = "cleaned"

InvalidSensorType(X) ==
    <<"I", "n", "v", "a", "l", "i", "d", " ", "s", "e", "n", "s",
        "o", "r", "_", "t", "y", "p", "e", ":", " ">>
        \o X

\* A value a message shows as it is: no backslash, no double quote, no
\* whitespace at either end, no two whitespace characters in a row.
IsPlainValue(X) ==
    /\ X # <<>>
    /\ \A i \in DOMAIN X : X[i] \notin {"\\", "\""}
    /\ X[1] \notin Whitespace
    /\ X[Len(X)] \notin Whitespace
    /\ \A i \in 1..(Len(X) - 1) :
          ~(X[i] \in Whitespace /\ X[i + 1] \in Whitespace)

C15_NeverRaises == Cleaned => ~ce_out.raises

-----------------------------------------------------------------------------
(* Properties of the append runs                                           *)

Appends(log) == {i \in DOMAIN log : log[i].op = "append"}

\* C17: a run that follows a run on the same transfer log appends nothing,
\* neither data rows nor the header.
C17_SecondRunAppendsNothing == a_runs > 1 => Appends(out_log) = {}

\* Columns A..C of the AMP_review tab of a workbook, as values().get
\* returns them.
AmpValues(book_tabs) ==
    IF HasTab(book_tabs, SHEET_NAME)
    THEN get_values(book_tabs[TabIndex(book_tabs, SHEET_NAME)].values,
                    A_C_COLUMNS)
    ELSE <<>>

Triple(row) ==
    <<Cell(<<row>>, 1, 1), Cell(<<row>>, 1, 2), Cell(<<row>>, 1, 3)>>

IsHeaderRow(row) ==
    [j \in DOMAIN row |-> lower(strip(row[j]))] = AMP_HEADER_LOWER

\* The rows that hold data: not the header in row 1, not an empty row.
DataRows(values) ==
    {i \in DOMAIN values :
        /\ ~(i = 1 /\ IsHeaderRow(values[1]))
        /\ Triple(values[i]) # <<EmptyCell, EmptyCell, EmptyCell>>}

NoTripleTwice(values) ==
    \A i, j \in DataRows(values) :
       i # j => Triple(values[i]) # Triple(values[j])

\* Every row of before is the same row of after.
RowsKept(before, after) ==
    \A i \in DOMAIN before : i \in DOMAIN after /\ after[i] = before[i]

\* C18: from a sheet whose data rows are pairwise distinct, after any
\* sequence of append runs on any transfer logs no (NMAquifer_Table.Field,
\* PointID, Error) triple is in more than one data row of AMP_review!A:C,
\* and every step of a run leaves the rows that were there as they were.
C18_AtMostOncePerKey ==
    /\ []NoTripleTwice(AmpValues(tabs))
    /\ [][RowsKept(AmpValues(tabs), AmpValues(tabs'))]_vars

\* The second of two runs has added a row to a sheet that had rows, with
\* a transfer log that also holds a row of the sheet.
C18_Witness ==
    /\ a_runs = 2
    /\ a_pc = "done"
    /\ Appends(out_log) # {}
    /\ existing_set # {}
    /\ \E i \in DOMAIN unique_new : ~IsNewRow(unique_new[i])
    /\ Cardinality(DataRows(AmpValues(tabs))) >= 2

HeaderRows(values) == {i \in DOMAIN values : IsHeaderRow(values[i])}

\* C25: after any sequence of append runs the header row
\* (NMAquifer_Table.Field, PointID, Error) is in at most one row of
\* AMP_review!A:C, and in no row but the first, also when a run starts
\* from a sheet that holds the header row and no data row.
C25_HeaderOnceAndFirst == HeaderRows(AmpValues(tabs)) \subseteq {1}

-----------------------------------------------------------------------------
(* build_field_pairs_flat.py and build_field_pairs_sheet.py: inputs        *)

Ages == <<"A", "g", "e", "s">>
Lat == <<"L", "a", "t">>
Elev == <<"E", "l", "e", "v">>

MaxMatchedRows == 2
MaxUnmatchedRows == 2

\* Rows of mapping_report_matched.csv: old table, old column, Ocotillo
\* table, Ocotillo field.
MatchedCsvRows ==
    {<<Wells, Lat, <<"s", "i", "t", "e", "s">>, <<"l", "a", "t">>>>,
     <<Wells, <<" ", "L", "a", "t">>, <<"s", "i", "t", "e", "s">>, <<"y">>>>,
     <<Sites, Elev, <<>>, <<>>>>,
     <<<<>>, Lat, <<"l", "o", "c">>, <<>>>>}

\* Rows of mapping_report_unmatched.csv: old table, old column, reason.
UnmatchedCsvRows ==
    {<<Wells, Lat, NoMatchReason>>,
     <<Wells, <<"E", "l", "e", "v", " ">>, NoMatchReason>>,
     <<Ages, Elev, NoSheetReason>>,
     <<<<" ", "W", "e", "l", "l", "s">>, Elev, NoMatchReason>>}

MatchedCsvColumns == <<OLD_TABLE_NAME, OLD_COLUMN_NAME, COL_OTAB, COL_OFIELD>>

CsvFile(columns, rows) == [exists |-> TRUE, columns |-> columns, rows |-> rows]

NoFile == [exists |-> FALSE, columns |-> <<>>, rows |-> <<>>]

MatchedCsvFiles ==
    {NoFile, CsvFile(<<OLD_TABLE_NAME, OLD_COLUMN_NAME, COL_OTAB>>, <<>>)}
        \cup {CsvFile(MatchedCsvColumns, rows) :
                 rows \in SeqsUpTo(MatchedCsvRows, MaxMatchedRows)}

UnmatchedCsvFiles ==
    {NoFile, CsvFile(<<OLD_TABLE_NAME, REASON>>, <<>>)}
        \cup {CsvFile(UnmatchedColumns, rows) :
                 rows \in SeqsUpTo(UnmatchedCsvRows, MaxUnmatchedRows)}

\* The spreadsheet without the FieldPairs tab, and with one from a run
\* before.
FieldPairsWorkbooks ==
    {<<>>,
     <<[title |-> OUTPUT_SHEET_NAME,
        values |-> <<<<NMAQUIFER_TABLEFIELD, OCOTILLO_TABLEFIELD>>,
                     <<<<"O", "l", "d", ".", "x">>, <<"n", "e", "w", ".",
                         "x">>>>,
                     <<<<"O", "l", "d", ".", "y">>, <<>>, <<"k", "e", "p",
                         "t">>>>>>,
        rules |-> <<>>]>>}

FpInit ==
    /\ CombineIdle
    /\ UpdateIdle
    /\ BlocksIdle
    /\ MetricsIdle
    /\ SyncIdle
    /\ KeyIdle
    /\ PipeIdle
    /\ AmpIdle
    /\ CleanIdle
    /\ LineIdle
    /\ DiscIdle
    /\ fp_pc = "start"
    /\ mapped_csv \in MatchedCsvFiles
    /\ unmapped_csv \in UnmatchedCsvFiles
    /\ df_m = [columns |-> <<>>, rows |-> <<>>]
    /\ df_u = [columns |-> <<>>, rows |-> <<>>]
    /\ pairs_sorted = <<>>
    /\ df_flat = <<>>
    /\ table_fields = <<>>
    /\ wide_values = <<>>
    /\ tabs \in FieldPairsWorkbooks
    /\ out_log = <<>>
    /\ exit_msg = ""

-----------------------------------------------------------------------------
(* build_field_pairs_flat.py: main                                         *)

\* Lines 83-107: the two files are read; the run ends if the matched file
\* is missing or lacks a column.
F_Load ==
    /\ fp_pc = "start"
    /\ IF load_exit(mapped_csv) # ""
       THEN /\ exit_msg' = load_exit(mapped_csv)
            /\ fp_pc' = "exited"
            /\ UNCHANGED <<df_m, df_u>>
       ELSE /\ df_m' = read_csv(mapped_csv)
            /\ df_u' = load_unmatched(unmapped_csv)
            /\ fp_pc' = "loaded"
            /\ UNCHANGED exit_msg
    /\ UNCHANGED <<notFpVars, tabs, out_log, mapped_csv, unmapped_csv,
                   pairs_sorted, df_flat, table_fields, wide_values>>

\* Lines 110-155: the mapping, the pairs, the sorted rows.
F_Build ==
    /\ fp_pc = "loaded"
    /\ pairs_sorted' = sorted_keys(flat_pairs(df_m.rows, df_u.rows))
    /\ df_flat' = flat_rows(sorted_keys(flat_pairs(df_m.rows, df_u.rows)),
                            flat_mapping(df_m.rows))
    /\ fp_pc' = "built"
    /\ UNCHANGED <<notFpVars, worldVars, mapped_csv, unmapped_csv, df_m,
                   df_u, table_fields, wide_values>>

\* Lines 156-175: the local file and the FieldPairs tab.
F_Write ==
    /\ fp_pc = "built"
    /\ tabs' = write_flat(Book, df_flat).tabs
    /\ out_log' = write_flat(Book, df_flat).out_log
    /\ fp_pc' = "done"
    /\ UNCHANGED <<notFpVars, exit_msg, mapped_csv, unmapped_csv, df_m, df_u,
                   pairs_sorted, df_flat, table_fields, wide_values>>

FlatNext ==
    \/ F_Load
    \/ F_Build
    \/ F_Write

SpecFlat == FpInit /\ [][FlatNext]_vars

-----------------------------------------------------------------------------
(* Properties of build_field_pairs_flat.py                                 *)

InputRows == df_m.rows \o df_u.rows

\* The pairs of the input as the two files give them, a missing name read
\* as str() shows it.
InputPairs ==
    {<<str(InputRows[i][OLD_TABLE_NAME]), str(InputRows[i][OLD_COLUMN_NAME])>> :
        i \in DOMAIN InputRows}

\* The pairs of the input with the space around each name taken off.
StrippedPairs ==
    {<<strip(str(InputRows[i][OLD_TABLE_NAME])),
       strip(str(InputRows[i][OLD_COLUMN_NAME]))>> : i \in DOMAIN InputRows}

RowOfPair(p) == p[1] \o <<".">> \o p[2]

Ascending(pairs) ==
    \A i, j \in DOMAIN pairs : i < j => pair_lt(pairs[i], pairs[j])

\* C8 as claimed: the flat output has exactly one row for each distinct
\* (old table, old field) pair of the matched and the unmatched input, and
\* the rows ascend by (table, field).
C8_OneRowPerInputPair ==
    fp_pc \in {"built", "done"} =>
        /\ Len(df_flat) = Cardinality(InputPairs)
        /\ Ascending(pairs_sorted)

\* C8: two pairs are one if they are equal once the space around the table
\* name and around the field name is taken off.  The flat output has
\* exactly one row for each such pair of the matched and the unmatched
\* input, named by the stripped names, and the rows ascend by
\* (table, field).
C8_OneRowPerStrippedPair ==
    fp_pc \in {"built", "done"} =>
        /\ Len(df_flat) = Cardinality(StrippedPairs)
        /\ Len(pairs_sorted) = Len(df_flat)
        /\ Range(pairs_sorted) = StrippedPairs
        /\ \A i \in DOMAIN df_flat : df_flat[i][1] = RowOfPair(pairs_sorted[i])
        /\ Ascending(pairs_sorted)

\* A run whose two files share a pair and whose matched file names a later
\* table before an earlier one.
C8_Witness ==
    /\ fp_pc = "done"
    /\ Len(df_flat) >= 2
    /\ \E i \in DOMAIN df_m.rows : \E j \in DOMAIN df_u.rows :
           pair_key(df_m.rows[i]) = pair_key(df_u.rows[j])
    /\ \E i, j \in DOMAIN df_m.rows :
           i < j /\ pair_lt(pair_key(df_m.rows[j]), pair_key(df_m.rows[i]))

-----------------------------------------------------------------------------
(* build_field_pairs_sheet.py: main                                        *)

\* Lines 115-139: as in the flat script.
W_Load ==
    /\ fp_pc = "start"
    /\ IF load_exit(mapped_csv) # ""
       THEN /\ exit_msg' = load_exit(mapped_csv)
            /\ fp_pc' = "exited"
            /\ UNCHANGED <<df_m, df_u>>
       ELSE /\ df_m' = read_csv(mapped_csv)
            /\ df_u' = load_unmatched(unmapped_csv)
            /\ fp_pc' = "loaded"
            /\ UNCHANGED exit_msg
    /\ UNCHANGED <<notFpVars, tabs, out_log, mapped_csv, unmapped_csv,
                   pairs_sorted, df_flat, table_fields, wide_values>>

\* Lines 145-242: the mapping, the tables, their fields, the grid.
W_Build ==
    /\ fp_pc = "loaded"
    /\ table_fields' = build_table_fields(df_m, df_u)
    /\ wide_values' = build_wide_values(df_m, build_table_fields(df_m, df_u))
    /\ fp_pc' = "built"
    /\ UNCHANGED <<notFpVars, worldVars, mapped_csv, unmapped_csv, df_m,
                   df_u, pairs_sorted, df_flat>>

\* Lines 247-262: the FieldPairs tab.
W_Write ==
    /\ fp_pc = "built"
    /\ tabs' = write_wide(Book, wide_values).tabs
    /\ out_log' = write_wide(Book, wide_values).out_log
    /\ fp_pc' = "done"
    /\ UNCHANGED <<notFpVars, exit_msg, mapped_csv, unmapped_csv, df_m, df_u,
                   pairs_sorted, df_flat, table_fields, wide_values>>

WideNext ==
    \/ W_Load
    \/ W_Build
    \/ W_Write

SpecWide == FpInit /\ [][WideNext]_vars

-----------------------------------------------------------------------------
(* Properties of build_field_pairs_sheet.py                                *)

\* The field names of the table in input order, matched rows first; a
\* missing name read as str() shows it.
NamesOf(rows, table, Name(_)) ==
    LET own == SelectSeq(rows, LAMBDA r : r[OLD_TABLE_NAME] = table)
    IN  [i \in DOMAIN own |-> Name(own[i][OLD_COLUMN_NAME])]

InputNames(table, Name(_)) ==
    NamesOf(df_m.rows, table, Name) \o NamesOf(df_u.rows, table, Name)

stripped(x) == strip(str(x))

FirstAt(seq, x) ==
    CHOOSE i \in DOMAIN seq : seq[i] = x /\ \A j \in 1..(i - 1) : seq[j] # x

\* fields holds each value of names once, in the order of the first
\* occurrences.
OnceInOrder(fields, names) ==
    /\ Range(fields) = Range(names)
    /\ \A i, j \in DOMAIN fields :
           i < j => FirstAt(names, fields[i]) < FirstAt(names, fields[j])

\* C9 as claimed: in the field list of each table only a name that occurs
\* again (exact string equality) is dropped, so that the list has as many
\* names as the table has distinct field names in the two files.
C9_ExactNamesOnce ==
    fp_pc \in {"built", "done"} =>
        \A t \in DOMAIN table_fields :
            Len(table_fields[t].fields) =
                Cardinality(Range(InputNames(table_fields[t].table, str)))

\* C9: the field list of each table holds the names with the space around
\* them taken off: those of the matched rows in input order, then those of
\* the unmatched rows, a stripped name that occurs again dropped at its
\* later occurrences, so that each distinct stripped name of the table
\* appears exactly once.
C9_StrippedNamesOnce ==
    fp_pc \in {"built", "done"} =>
        \A t \in DOMAIN table_fields :
            OnceInOrder(table_fields[t].fields,
                        InputNames(table_fields[t].table, stripped))

\* A table with a field of the matched file before one of the unmatched
\* file, and with a name that occurred again.
C9_Witness ==
    /\ fp_pc = "done"
    /\ \E t \in DOMAIN table_fields :
           LET names == InputNames(table_fields[t].table, stripped)
               fields == table_fields[t].fields
               from_m == NamesOf(df_m.rows, table_fields[t].table, stripped)
           IN  /\ Len(fields) >= 2
               /\ Len(names) > Len(fields)
               /\ from_m # <<>>
               /\ fields[1] \in Range(from_m)
               /\ fields[Len(fields)] \notin Range(from_m)

-----------------------------------------------------------------------------
(* make_key on its own                                                     *)

MaxKeyLen == 3

KeyAlphabet == {"W", "d", "_", " ", "-", "7", "U+212A", "U+00C9"}


KeyInputs ==
    SeqsUpTo(KeyAlphabet, MaxKeyLen) \cup {None, NaN, NA, Well_ID, well_id, WELL_ID}

KeyInit ==
    /\ CombineIdle
    /\ UpdateIdle
    /\ BlocksIdle
    /\ MetricsIdle
    /\ SyncIdle
    /\ PipeIdle
    /\ AmpIdle
    /\ FpIdle
    /\ CleanIdle
    /\ LineIdle
    /\ DiscIdle
    /\ WorldIdle
    /\ mk_pc = "input"
    /\ mk_x \in KeyInputs
    /\ mk_key = <<>>
    /\ mk_key2 = <<>>

\* key = make_key(x)
MakeKey ==
    /\ mk_pc = "input"
    /\ mk_key' = make_key(mk_x)
    /\ mk_pc' = "keyed"
    /\ UNCHANGED <<mk_x, mk_key2, worldVars, notKeyVars>>

\* make_key(key)
MakeKeyAgain ==
    /\ mk_pc = "keyed"
    /\ mk_key2' = make_key(mk_key)
    /\ mk_pc' = "rekeyed"
    /\ UNCHANGED <<mk_x, mk_key, worldVars, notKeyVars>>

KeyNext == MakeKey \/ MakeKeyAgain

SpecKey == KeyInit /\ [][KeyNext]_vars

\* C1: make_key is total and idempotent: on every input it returns a string
\* (of characters of [0-9a-z]), it returns "" for None, nan and "", and
\* applying it to its own result changes nothing.
C1_TotalIdempotent ==
    /\ mk_pc # "input" =>
          /\ mk_key \in Seq(KeyChars)
          /\ (mk_x \in {None, NaN, <<>>} => mk_key = <<>>)
    /\ mk_pc = "rekeyed" => mk_key2 = mk_key

C1_Witness ==
    /\ mk_pc = "rekeyed"
    /\ mk_x = None
    /\ mk_key2 = <<>>

\* The name lowercased, then only its [0-9a-z] characters, in order.
IsKeyChar(c) == c \in KeyChars

\* C2: for a non-null name the key is the lowercased name with every
\* character outside [0-9a-z] deleted, order kept; "Well_ID", "well id" and
\* "WELL-ID" all get "wellid".
C2_LowerAlnumOnly ==
    mk_pc # "input" /\ ~isna(mk_x) =>
        /\ mk_key = SelectSeq(lower(mk_x), IsKeyChar)
        /\ (mk_x \in {Well_ID, well_id, WELL_ID} => mk_key = wellid)

C2_Witness ==
    /\ mk_pc = "keyed"
    /\ mk_x = WELL_ID
    /\ mk_key = wellid

=============================================================================
